---- MODULE Spec2Model ----
(***************************************************************************)
(* A model of the Go SDK for the OpenCode Zen gateway: the retrying        *)
(* transport (doRequest), the SSE framer (startStream), the streaming      *)
(* facade (StreamEvents / Stream), the blocking Gemini call                *)
(* (CreateModelContent), the delta parser (ParseNormalizedEvent) and the   *)
(* tool-call accumulator (ToolCallAccumulator).                            *)
(***************************************************************************)
EXTENDS Integers, Sequences, FiniteSets, TLC

(***************************************************************************)
(* Bounds of the model.                                                    *)
(***************************************************************************)
\* Retry.MaxRetries ranges over -1 .. MaxRetriesBound (the field is an
\* unvalidated int, so a negative value is a configuration the code accepts).
MaxRetriesBound == 2

(***************************************************************************)
(* State.                                                                  *)
(***************************************************************************)
\* doRequest
VARIABLES
    method,                 \* the method argument of doRequest
    maxRetries,             \* c.cfg.Retry.MaxRetries
    retryOnNonIdempotent,   \* c.cfg.Retry.RetryOnNonIdempotent
    retries,                \* the local variable retries
    attempt,                \* the loop variable attempt
    lastErr,                \* the local variable lastErr
    rqpc,                   \* "loop": at the loop test; "done": returned
    sent,                   \* number of httpClient.Do calls made so far
    slept,                  \* arguments of the Backoff calls slept so far
    lastOutcome,            \* what the most recent attempt met
    ret                     \* the values returned by doRequest

reqVars == <<method, maxRetries, retryOnNonIdempotent, retries, attempt,
             lastErr, rqpc, sent, slept, lastOutcome, ret>>

\* The framer goroutine of startStream and the response body it reads
VARIABLES
    body,          \* history: the bytes of the whole response body
    rest,          \* bytes of the response body not yet read by the framer
    ending,        \* how the body ends
    ctxCancelled,  \* the caller's context has been cancelled
    bodyClosed,    \* resp.Body.Close (stream.Close) has been called
    eventName,     \* the local variable eventName
    dataBuf,       \* the local variable dataBuf
    fpc,           \* framer: "read", "send", "sendLast", "closed"
    fev,           \* the StreamEvent the framer is blocked sending
    eventsClosed,  \* number of times close(events) was executed
    streamErr,     \* stream.Err
    framed,        \* history: every StreamEvent handed to the receiver
    sentinelSeen,  \* history: flush met the [DONE] sentinel
    ssSent,        \* number of httpClient.Do calls made by startStream
    ssErr          \* the error startStream returned

framerVars == <<body, rest, ending, ctxCancelled, bodyClosed, eventName, dataBuf, fpc,
                fev, eventsClosed, streamErr, framed, sentinelSeen, ssSent, ssErr>>

\* CreateModelContent
VARIABLES
    gpc,     \* "call", "range" (the loop over stream.Events), "done"
    last,    \* the local variable last
    gret     \* the values CreateModelContent returned

gemVars == <<gpc, last, gret>>

\* ToolCallAccumulator
VARIABLES
    calls,      \* a.calls: index -> toolCallState
    order,      \* a.order
    applied,    \* history: the deltas applied so far, in order
    applyRet,   \* history: what each Apply returned
    apc,        \* "apply": Apply may be called; "done": CompleteCalls was called
    completed   \* what CompleteCalls returned

accVars == <<calls, order, applied, applyRet, apc, completed>>

\* StreamEvents, Stream and their caller
VARIABLES
    endpoint,      \* the dialect resolveStreamEndpoint returned
    sepc,          \* StreamEvents goroutine: "idle", "recv", "send",
                   \* "deferClose", "deferCloseErrCh", "deferCloseOut", "done"
    sev,           \* the UnifiedEvent that goroutine is blocked sending
    outClosed,     \* close(out) of StreamEvents was executed
    errCh,         \* content of errCh of StreamEvents (capacity 1)
    errChClosed,   \* close(errCh) of StreamEvents was executed
    stpc,          \* Stream goroutine: "idle", "recv", "send", "recvErr",
                   \* "deferCloseOutErr", "deferCloseOut", "done"
    pend,          \* deltas of the current event not yet sent
    deltasClosed,  \* close(out) of Stream was executed
    outErr,        \* content of outErr of Stream (capacity 1)
    outErrClosed,  \* close(outErr) of Stream was executed
    cpc,           \* caller: "call", "recv", "recvErr", "done", "stopped", "failed"
    got,           \* history: the deltas the caller received, in order
    gotErr         \* the error the caller received from the error channel

pipeVars == <<endpoint, sepc, sev, outClosed, errCh, errChClosed, stpc, pend,
              deltasClosed, outErr, outErrClosed, cpc, got, gotErr>>

\* The router and the translators of a NormalizedRequest
VARIABLES
    nreq,          \* the NormalizedRequest handed to the function under call
    npc,           \* "call" before the function ran, "done" after it returned
    nres           \* what the function returned

normVars == <<nreq, npc, nres>>

\* The headers of one HTTP request
VARIABLES
    hcall,         \* the client configuration and the arguments of the call
    hpc,           \* "call" before the request was prepared, "done" after
    hres           \* the function that prepared the request and its headers

authVars == <<hcall, hpc, hres>>

\* The marshalling of one dialect body
VARIABLES
    mcall,         \* the body handed to MarshalJSON, its Extra map included
    mpc,           \* "call" before MarshalJSON ran, "done" after it returned
    mres           \* the JSON object MarshalJSON produced

marshalVars == <<mcall, mpc, mres>>

\* The parsing of one event into normalized deltas
VARIABLES
    pin,           \* the event handed to the parser: its dialect and its data
    ppc,           \* "call" before the parser ran, "done" after it returned
    pout           \* the deltas the parser returned

parseVars == <<pin, ppc, pout>>

vars == <<reqVars, framerVars, gemVars, accVars, pipeVars, normVars, authVars, marshalVars,
          parseVars>>

(***************************************************************************)
(* Transport: doRequest (src/unnamed/part_000).                            *)
(***************************************************************************)
\* The nil error, the nil byte slice and the nil header.
NoErr == [kind |-> "nil"]
NilBytes == "<nil>"
NilHeader == "<nil>"

\* Method strings a caller may pass; "P T" is not a valid HTTP token, so
\* http.NewRequestWithContext rejects it.
Methods == {"GET", "get", "HEAD", "OPTIONS", "POST", "DELETE", "P T"}

\* strings.ToUpper on the method strings of the model.
ToUpper(m) == IF m = "get" THEN "GET" ELSE m

\* net/http's validMethod, on the method strings of the model.
ValidMethod(m) == m # "P T"

isIdempotent(m) == ToUpper(m) \in {"GET", "HEAD", "OPTIONS"}

\* Statuses a server may answer with, around every boundary the code tests.
Statuses == {199, 200, 204, 299, 300, 404, 429, 500, 501, 502, 503, 504}

retryableStatusWide == {404, 429, 500, 502, 503, 504}

retryableStatus == {429, 500, 502, 503, 504}

Is2xx(status) == status >= 200 /\ status < 300

\* Response bodies, the errors httpClient.Do may return, and the errors
\* io.ReadAll may return.
Bodies == {"", "b1", "b2"}
TransportErrs == {[kind |-> "transport", id |-> "e1"], [kind |-> "transport", id |-> "e2"]}
ReadErrs == {[kind |-> "read", id |-> "r1"], [kind |-> "read", id |-> "r2"]}
NewRequestErr == [kind |-> "newrequest"]

newAPIError(status, payload) == [kind |-> "api", status |-> status, body |-> payload]

NoOutcome == [kind |-> "none"]

\* The effective retry count of lines 27-30.
EffectiveRetriesIgnoreGuard(m, mr, roni) == mr

EffectiveRetries(m, mr, roni) ==
    IF ~isIdempotent(m) /\ ~roni THEN 0 ELSE mr

ReqInit ==
    /\ method \in Methods
    /\ maxRetries \in -1 .. MaxRetriesBound
    /\ retryOnNonIdempotent \in BOOLEAN
    /\ retries = EffectiveRetries(method, maxRetries, retryOnNonIdempotent)
    /\ attempt = 0
    /\ lastErr = NoErr
    /\ rqpc = "loop"
    /\ sent = 0
    /\ slept = <<>>
    /\ lastOutcome = NoOutcome
    /\ ret = [payload |-> NilBytes, header |-> NilHeader, err |-> NoErr]

Return(payload, header, err) ==
    /\ rqpc' = "done"
    /\ ret' = [payload |-> payload, header |-> header, err |-> err]
    /\ UNCHANGED <<attempt, slept>>

\* time.Sleep(c.cfg.Retry.Backoff(attempt)); continue
SleepAndContinue ==
    /\ slept' = Append(slept, attempt)
    /\ attempt' = attempt + 1
    /\ UNCHANGED <<rqpc, ret>>

\* Line 33 when the loop test fails, then line 70.
LoopExit ==
    /\ rqpc = "loop"
    /\ ~(attempt <= retries)
    /\ Return(NilBytes, NilHeader, lastErr)
    /\ UNCHANGED <<method, maxRetries, retryOnNonIdempotent, retries, lastErr,
                   sent, lastOutcome>>
    /\ UNCHANGED <<framerVars, gemVars, accVars, pipeVars, normVars, authVars, marshalVars, parseVars>>

\* Lines 34-37: http.NewRequestWithContext fails; nothing is sent.
AttemptNewRequestError ==
    /\ rqpc = "loop"
    /\ attempt <= retries
    /\ ~ValidMethod(method)
    /\ Return(NilBytes, NilHeader, NewRequestErr)
    /\ UNCHANGED <<method, maxRetries, retryOnNonIdempotent, retries, lastErr,
                   sent, lastOutcome>>
    /\ UNCHANGED <<framerVars, gemVars, accVars, pipeVars, normVars, authVars, marshalVars, parseVars>>

\* A loop that keeps the first error it met and surfaces that one.
TransportErrorKeepFirst(err) ==
    /\ rqpc = "loop"
    /\ attempt <= retries
    /\ ValidMethod(method)
    /\ sent' = sent + 1
    /\ lastOutcome' = [kind |-> "transport", err |-> err]
    /\ lastErr' = IF lastErr = NoErr THEN err ELSE lastErr
    /\ IF attempt < retries
          THEN SleepAndContinue
          ELSE Return(NilBytes, NilHeader, lastErr')
    /\ UNCHANGED <<method, maxRetries, retryOnNonIdempotent, retries>>
    /\ UNCHANGED <<framerVars, gemVars, accVars, pipeVars, normVars, authVars, marshalVars, parseVars>>

\* A loop that sleeps after every transport error, the last one included.
TransportErrorAlwaysSleeps(err) ==
    /\ rqpc = "loop"
    /\ attempt <= retries
    /\ ValidMethod(method)
    /\ sent' = sent + 1
    /\ lastOutcome' = [kind |-> "transport", err |-> err]
    /\ lastErr' = err
    /\ slept' = Append(slept, attempt)
    /\ IF attempt < retries
          THEN attempt' = attempt + 1 /\ UNCHANGED <<rqpc, ret>>
          ELSE /\ rqpc' = "done"
               /\ ret' = [payload |-> NilBytes, header |-> NilHeader, err |-> err]
               /\ UNCHANGED attempt
    /\ UNCHANGED <<method, maxRetries, retryOnNonIdempotent, retries>>
    /\ UNCHANGED <<framerVars, gemVars, accVars, pipeVars, normVars, authVars, marshalVars, parseVars>>

\* Lines 41-49: httpClient.Do returns an error.
TransportError(err) ==
    /\ rqpc = "loop"
    /\ attempt <= retries
    /\ ValidMethod(method)
    /\ sent' = sent + 1
    /\ lastOutcome' = [kind |-> "transport", err |-> err]
    /\ lastErr' = err
    /\ IF attempt < retries
          THEN SleepAndContinue
          ELSE Return(NilBytes, NilHeader, err)
    /\ UNCHANGED <<method, maxRetries, retryOnNonIdempotent, retries>>
    /\ UNCHANGED <<framerVars, gemVars, accVars, pipeVars, normVars, authVars, marshalVars, parseVars>>

AttemptTransportError == \E err \in TransportErrs : TransportError(err)

\* A doRequest that treats a failed read of the body as one more retryable
\* failure.
ReadErrorRetried(status, payload, err) ==
    /\ rqpc = "loop"
    /\ attempt <= retries
    /\ ValidMethod(method)
    /\ sent' = sent + 1
    /\ lastOutcome' = [kind |-> "response", status |-> status, body |-> payload,
                       readErr |-> err]
    /\ IF attempt < retries
          THEN SleepAndContinue
          ELSE Return(NilBytes, "resp", err)
    /\ UNCHANGED <<method, maxRetries, retryOnNonIdempotent, retries, lastErr>>
    /\ UNCHANGED <<framerVars, gemVars, accVars, pipeVars, normVars, authVars, marshalVars, parseVars>>

\* Lines 51-55: the response arrived but io.ReadAll of its body fails.
ReadError(status, payload, err) ==
    /\ rqpc = "loop"
    /\ attempt <= retries
    /\ ValidMethod(method)
    /\ sent' = sent + 1
    /\ lastOutcome' = [kind |-> "response", status |-> status, body |-> payload,
                       readErr |-> err]
    /\ Return(NilBytes, "resp", err)
    /\ UNCHANGED <<method, maxRetries, retryOnNonIdempotent, retries, lastErr>>
    /\ UNCHANGED <<framerVars, gemVars, accVars, pipeVars, normVars, authVars, marshalVars, parseVars>>

AttemptReadError ==
    \E status \in Statuses, payload \in Bodies, err \in ReadErrs :
        ReadError(status, payload, err)

SuccessDropBody(status, payload) ==
    /\ rqpc = "loop"
    /\ attempt <= retries
    /\ ValidMethod(method)
    /\ Is2xx(status)
    /\ sent' = sent + 1
    /\ lastOutcome' = [kind |-> "response", status |-> status, body |-> payload,
                       readErr |-> NoErr]
    /\ Return("", "resp", NoErr)
    /\ UNCHANGED <<method, maxRetries, retryOnNonIdempotent, retries, lastErr>>
    /\ UNCHANGED <<framerVars, gemVars, accVars, pipeVars, normVars, authVars, marshalVars, parseVars>>

\* Lines 51-59: the body was read and the status is in [200,300).
Success(status, payload) ==
    /\ rqpc = "loop"
    /\ attempt <= retries
    /\ ValidMethod(method)
    /\ Is2xx(status)
    /\ sent' = sent + 1
    /\ lastOutcome' = [kind |-> "response", status |-> status, body |-> payload,
                       readErr |-> NoErr]
    /\ Return(payload, "resp", NoErr)
    /\ UNCHANGED <<method, maxRetries, retryOnNonIdempotent, retries, lastErr>>
    /\ UNCHANGED <<framerVars, gemVars, accVars, pipeVars, normVars, authVars, marshalVars, parseVars>>

AttemptSuccess == \E status \in Statuses, payload \in Bodies : Success(status, payload)

\* Lines 51-67: the body was read and the status is outside [200,300).
StatusError(status, payload) ==
    /\ rqpc = "loop"
    /\ attempt <= retries
    /\ ValidMethod(method)
    /\ ~Is2xx(status)
    /\ sent' = sent + 1
    /\ lastOutcome' = [kind |-> "response", status |-> status, body |-> payload,
                       readErr |-> NoErr]
    /\ lastErr' = newAPIError(status, payload)
    /\ IF attempt < retries /\ status \in retryableStatus
          THEN SleepAndContinue
          ELSE Return(NilBytes, "resp", newAPIError(status, payload))
    /\ UNCHANGED <<method, maxRetries, retryOnNonIdempotent, retries>>
    /\ UNCHANGED <<framerVars, gemVars, accVars, pipeVars, normVars, authVars, marshalVars, parseVars>>

AttemptStatusError == \E status \in Statuses, payload \in Bodies : StatusError(status, payload)


(***************************************************************************)
(* SSE framer: the goroutine of startStream (src/types_messages.go).       *)
(*                                                                         *)
(* A response body is a sequence of symbols.  A symbol is a single         *)
(* character, or a token "{J..}" standing for the text of one JSON object  *)
(* (a run of characters with no white space at its ends, no line break,    *)
(* and beginning with an opening brace).                                   *)
(***************************************************************************)
\* Number of chunks a server writes into one response body.
MaxChunks == 3

LF == "\n"
CR == "\r"

\* unicode.IsSpace on the symbols of the model.
IsSpace(c) == c \in {" ", "\t", LF, CR}

\* Position of the first line feed of s, 0 when there is none.
IndexLF(s) ==
    IF \E i \in 1 .. Len(s) : s[i] = LF
        THEN CHOOSE i \in 1 .. Len(s) : s[i] = LF /\ \A j \in 1 .. i - 1 : s[j] # LF
        ELSE 0

\* strings.TrimRight(s, "\r\n")
RECURSIVE TrimRightCRLF(_)
TrimRightCRLF(s) ==
    IF Len(s) > 0 /\ s[Len(s)] \in {CR, LF}
        THEN TrimRightCRLF(SubSeq(s, 1, Len(s) - 1))
        ELSE s

RECURSIVE TrimLeftSpace(_)
TrimLeftSpace(s) ==
    IF Len(s) > 0 /\ IsSpace(s[1]) THEN TrimLeftSpace(Tail(s)) ELSE s

RECURSIVE TrimRightSpace(_)
TrimRightSpace(s) ==
    IF Len(s) > 0 /\ IsSpace(s[Len(s)])
        THEN TrimRightSpace(SubSeq(s, 1, Len(s) - 1))
        ELSE s

\* strings.TrimSpace
TrimSpace(s) == TrimRightSpace(TrimLeftSpace(s))

\* strings.HasPrefix and strings.TrimPrefix
HasPrefix(s, p) == Len(s) >= Len(p) /\ SubSeq(s, 1, Len(p)) = p
TrimPrefix(s, p) == IF HasPrefix(s, p) THEN SubSeq(s, Len(p) + 1, Len(s)) ELSE s

\* A flush that keeps the trailing line feed of the buffer.
KeepSuffixLF(s) == s

\* strings.TrimSuffix(s, "\n")
TrimSuffixLF(s) ==
    IF Len(s) > 0 /\ s[Len(s)] = LF THEN SubSeq(s, 1, Len(s) - 1) ELSE s

ColonPrefix == <<":">>
EventPrefix == <<"e", "v", "e", "n", "t", ":">>
DataPrefix == <<"d", "a", "t", "a", ":">>
DoneSentinel == <<"[", "D", "O", "N", "E", "]">>

\* The chunks a server writes.  Some are whole frames, some single lines,
\* one is a line with no line feed.
ChunkNamedFrame == EventPrefix \o <<" ", "message_stop", LF>> \o DataPrefix \o <<" ", "{J1}", LF, LF>>
ChunkFrame == DataPrefix \o <<" ", "{J2}", LF, LF>>
ChunkDone == DataPrefix \o <<" ">> \o DoneSentinel \o <<LF, LF>>
ChunkDataLine == DataPrefix \o <<"{J3}", " ", CR, LF>>
ChunkBlank == <<LF>>
ChunkEventLine == EventPrefix \o <<"n", LF>>
ChunkComment == <<":", "c", LF>>
ChunkEmptyData == DataPrefix \o <<LF>>
ChunkOther == <<"i", "d", ":", "1", LF>>
ChunkPartial == DataPrefix \o <<"{J1}">>

\* The chunks of the bodies read through StreamEvents and Stream.  An empty
\* data line next to a JSON data line gives an event whose Data has a line
\* feed before or after the JSON text.
StreamChunks ==
    {ChunkNamedFrame, ChunkFrame, ChunkDone, ChunkDataLine, ChunkBlank, ChunkEmptyData}

\* The chunks of the bodies read by the blocking Gemini call.
Chunks == {ChunkNamedFrame, ChunkFrame, ChunkDone, ChunkDataLine, ChunkBlank,
           ChunkEventLine, ChunkComment, ChunkEmptyData, ChunkOther, ChunkPartial}

RECURSIVE Concat(_)
Concat(ss) == IF ss = <<>> THEN <<>> ELSE Head(ss) \o Concat(Tail(ss))

\* Every body of at most n chunks drawn from cs.
BodiesOf(cs, n) == {Concat(ss) : ss \in UNION {[1 .. k -> cs] : k \in 0 .. n}}

\* How a body ends once its bytes are read: the server closes it (EOF), the
\* connection fails (a read error), or the server keeps it open and silent.
Endings == {"eof", "err", "hang"}

StreamEvent(name, raw) == [Event |-> name, Data |-> raw, Raw |-> raw]
NoEvent == StreamEvent(<<>>, <<>>)

ErrRead == [kind |-> "read", id |-> "body"]
ErrCancelled == [kind |-> "read", id |-> "context canceled"]
ErrClosedBody == [kind |-> "read", id |-> "closed body"]

\* Before startStream is called: fpc = "idle", no goroutine exists yet.
FramerInit ==
    /\ body = <<>>
    /\ rest = <<>>
    /\ ending = "eof"
    /\ ctxCancelled = FALSE
    /\ bodyClosed = FALSE
    /\ eventName = <<>>
    /\ dataBuf = <<>>
    /\ fpc = "idle"
    /\ fev = NoEvent
    /\ eventsClosed = 0
    /\ streamErr = NoErr
    /\ framed = <<>>
    /\ sentinelSeen = FALSE
    /\ ssSent = 0
    /\ ssErr = NoErr

\* The paths startStream is called with: a fixed one, and the Models path
\* with a model id of the caller's, which may hold a control character.
StartPaths ==
    {<<"/responses">>,
     <<"/models/", "x", ":streamGenerateContent?alt=sse">>,
     <<"/models/", LF, ":streamGenerateContent?alt=sse">>}
ModelsPaths == {p \in StartPaths : p[1] = "/models/"}

\* net/url's Parse, on the paths of the model: a URL with an ASCII control
\* character is rejected.
ValidURL(path) == \A i \in 1 .. Len(path) : path[i] \notin {LF, CR, "\t"}

\* Lines 105-109: http.NewRequestWithContext returns a request when the
\* method is a valid token and the URL parses; its error names both.
RequestBuilds(m, path) == ValidMethod(m) /\ ValidURL(path)
NewRequestError(m, path) == [kind |-> "newrequest", method |-> m, url |-> path]

\* startStream, lines 104-133 and 199: one httpClient.Do.  On a 2xx status
\* the goroutine is started on the response body (one of bodies, ending in
\* one of Endings); on a transport error or another status the call
\* returns the error and starts nothing; when the request cannot be built
\* the call returns that error and sends nothing.
StartStreamOK(m, path, bodies) ==
    /\ fpc = "idle"
    /\ RequestBuilds(m, path)
    /\ ~ctxCancelled
    /\ ssSent' = ssSent + 1
    /\ body' \in bodies
    /\ rest' = body'
    /\ ending' \in Endings
    /\ fpc' = "read"
    /\ UNCHANGED <<ctxCancelled, bodyClosed, eventName, dataBuf, fev, eventsClosed,
                   streamErr, framed, sentinelSeen, ssErr>>

\* A startStream that repeats a failed request as doRequest does.
StartStreamFailsRetrying(m, path) ==
    /\ fpc = "idle"
    /\ fpc' = "failed"
    /\ IF ~RequestBuilds(m, path)
          THEN /\ ssSent' = ssSent
               /\ ssErr' = NewRequestError(m, path)
          ELSE /\ ssSent' = ssSent + 1 + (IF maxRetries > 0 THEN maxRetries ELSE 0)
               /\ \/ \E err \in TransportErrs : ssErr' = err
                  \/ \E status \in Statuses, payload \in Bodies :
                        /\ ~ctxCancelled
                        /\ status < 200 \/ status >= 300
                        /\ ssErr' = newAPIError(status, payload)
    /\ UNCHANGED <<body, rest, ending, ctxCancelled, bodyClosed, eventName, dataBuf, fev,
                   eventsClosed, streamErr, framed, sentinelSeen>>

\* Lines 105-127: the three returns of an error.
StartStreamFails(m, path) ==
    /\ fpc = "idle"
    /\ fpc' = "failed"
    /\ IF ~RequestBuilds(m, path)
          THEN /\ ssSent' = ssSent
               /\ ssErr' = NewRequestError(m, path)
          ELSE /\ ssSent' = ssSent + 1
               /\ \/ \E err \in TransportErrs : ssErr' = err
                  \/ \E status \in Statuses, payload \in Bodies :
                        /\ ~ctxCancelled
                        /\ status < 200 \/ status >= 300
                        /\ ssErr' = newAPIError(status, payload)
    /\ UNCHANGED <<body, rest, ending, ctxCancelled, bodyClosed, eventName, dataBuf, fev,
                   eventsClosed, streamErr, framed, sentinelSeen>>

\* A goroutine that returns and leaves the channel open.
FramerReturnNoClose ==
    /\ fpc' = "closed"
    /\ UNCHANGED eventsClosed

\* The deferred close(events) when the goroutine returns.
FramerReturn ==
    /\ fpc' = "closed"
    /\ eventsClosed' = eventsClosed + 1

\* A flush that knows no sentinel.
FlushThenEmitDone(next) ==
    IF Len(dataBuf) = 0
        THEN /\ eventName' = <<>>
             /\ IF next = "read"
                   THEN fpc' = "read" /\ UNCHANGED eventsClosed
                   ELSE FramerReturn
             /\ UNCHANGED <<dataBuf, fev, sentinelSeen>>
        ELSE /\ dataBuf' = <<>>
             /\ eventName' = <<>>
             /\ fev' = StreamEvent(eventName, TrimSuffixLF(dataBuf))
             /\ fpc' = IF next = "read" THEN "send" ELSE "sendLast"
             /\ UNCHANGED <<eventsClosed, sentinelSeen>>

\* A flush that resets the event name only when it has data to emit.
FlushThenKeepName(next) ==
    IF Len(dataBuf) = 0
        THEN /\ IF next = "read"
                   THEN fpc' = "read" /\ UNCHANGED eventsClosed
                   ELSE FramerReturn
             /\ UNCHANGED <<eventName, dataBuf, fev, sentinelSeen>>
        ELSE /\ dataBuf' = <<>>
             /\ eventName' = <<>>
             /\ IF TrimSuffixLF(dataBuf) = DoneSentinel
                   THEN /\ FramerReturn
                        /\ sentinelSeen' = TRUE
                        /\ UNCHANGED fev
                   ELSE /\ fev' = StreamEvent(eventName, TrimSuffixLF(dataBuf))
                        /\ fpc' = IF next = "read" THEN "send" ELSE "sendLast"
                        /\ UNCHANGED <<eventsClosed, sentinelSeen>>

\* flush() of lines 141-161 up to the point where it returns or blocks on
\* the channel send; next is where the goroutine goes when the send is done.
FlushThen(next) ==
    IF Len(dataBuf) = 0
        THEN /\ eventName' = <<>>
             /\ IF next = "read"
                   THEN fpc' = "read" /\ UNCHANGED eventsClosed
                   ELSE FramerReturn
             /\ UNCHANGED <<dataBuf, fev, sentinelSeen>>
        ELSE /\ dataBuf' = <<>>
             /\ eventName' = <<>>
             /\ IF TrimSuffixLF(dataBuf) = DoneSentinel
                   THEN /\ FramerReturn
                        /\ sentinelSeen' = TRUE
                        /\ UNCHANGED fev
                   ELSE /\ fev' = StreamEvent(eventName, TrimSuffixLF(dataBuf))
                        /\ fpc' = IF next = "read" THEN "send" ELSE "sendLast"
                        /\ UNCHANGED <<eventsClosed, sentinelSeen>>

\* Lines 164-195: ReadString returns a whole line.
FramerReadLine ==
    /\ fpc = "read"
    /\ IndexLF(rest) > 0
    /\ LET line == TrimRightCRLF(SubSeq(rest, 1, IndexLF(rest)))
       IN  /\ rest' = SubSeq(rest, IndexLF(rest) + 1, Len(rest))
           /\ IF line = <<>>
                 THEN FlushThen("read")
                 ELSE /\ IF HasPrefix(line, ColonPrefix)
                            THEN UNCHANGED <<eventName, dataBuf>>
                            ELSE IF HasPrefix(line, EventPrefix)
                                THEN /\ eventName' = TrimSpace(TrimPrefix(line, EventPrefix))
                                     /\ UNCHANGED dataBuf
                                ELSE IF HasPrefix(line, DataPrefix)
                                    THEN /\ dataBuf' = dataBuf \o TrimSpace(TrimPrefix(line, DataPrefix)) \o <<LF>>
                                         /\ UNCHANGED eventName
                                    ELSE UNCHANGED <<eventName, dataBuf>>
                      /\ UNCHANGED <<fpc, fev, eventsClosed, sentinelSeen>>
    /\ UNCHANGED <<body, ending, ctxCancelled, bodyClosed, streamErr, framed, ssSent, ssErr>>
    /\ UNCHANGED <<reqVars, gemVars, accVars, pipeVars, normVars, authVars, marshalVars, parseVars>>

\* A goroutine that returns at the end of the body without a last flush.
FramerReadEOFNoFlush ==
    /\ fpc = "read"
    /\ IndexLF(rest) = 0
    /\ ending = "eof"
    /\ rest' = <<>>
    /\ FramerReturn
    /\ UNCHANGED <<eventName, dataBuf, fev, sentinelSeen>>
    /\ UNCHANGED <<body, ending, ctxCancelled, bodyClosed, streamErr, framed, ssSent, ssErr>>
    /\ UNCHANGED <<reqVars, gemVars, accVars, pipeVars, normVars, authVars, marshalVars, parseVars>>

\* Lines 164-171: ReadString meets the end of the body; the bytes of an
\* unfinished line are dropped and flush() runs once more.
FramerReadEOF ==
    /\ fpc = "read"
    /\ IndexLF(rest) = 0
    /\ ending = "eof"
    /\ rest' = <<>>
    /\ FlushThen("return")
    /\ UNCHANGED <<body, ending, ctxCancelled, bodyClosed, streamErr, framed, ssSent, ssErr>>
    /\ UNCHANGED <<reqVars, gemVars, accVars, pipeVars, normVars, authVars, marshalVars, parseVars>>

\* The error a failing read returns.
ReadFailure ==
    IF ctxCancelled THEN ErrCancelled
    ELSE IF bodyClosed THEN ErrClosedBody
    ELSE ErrRead

\* A goroutine that flushes its buffer on a read error as it does on EOF.
FramerReadErrorFlushing ==
    /\ fpc = "read"
    /\ \/ ctxCancelled
       \/ bodyClosed
       \/ IndexLF(rest) = 0 /\ ending = "err"
    /\ streamErr' = ReadFailure
    /\ FlushThen("return")
    /\ UNCHANGED <<body, rest, ending, ctxCancelled, bodyClosed, framed, ssSent, ssErr>>
    /\ UNCHANGED <<reqVars, gemVars, accVars, pipeVars, normVars, authVars, marshalVars, parseVars>>

\* Lines 164-171: ReadString fails with an error other than EOF.  A read
\* fails when the connection fails after the last byte, or at any read once
\* the context is cancelled or the body is closed.
FramerReadError ==
    /\ fpc = "read"
    /\ \/ ctxCancelled
       \/ bodyClosed
       \/ IndexLF(rest) = 0 /\ ending = "err"
    /\ streamErr' = ReadFailure
    /\ FramerReturn
    /\ UNCHANGED <<body, rest, ending, ctxCancelled, bodyClosed, eventName, dataBuf,
                   fev, framed, sentinelSeen, ssSent, ssErr>>
    /\ UNCHANGED <<reqVars, gemVars, accVars, pipeVars, normVars, authVars, marshalVars, parseVars>>

\* The framer's half of the rendezvous on the unbuffered events channel:
\* line 155 completes, and the goroutine reads on, or returns when the send
\* was that of the flush at EOF.
FramerDelivered ==
    /\ fpc \in {"send", "sendLast"}
    /\ framed' = Append(framed, fev)
    /\ IF fpc = "send"
          THEN fpc' = "read" /\ UNCHANGED eventsClosed
          ELSE FramerReturn
    /\ UNCHANGED <<body, rest, ending, ctxCancelled, bodyClosed, eventName, dataBuf,
                   fev, streamErr, sentinelSeen, ssSent, ssErr>>

\* The caller cancels the context of the call.
Cancel ==
    /\ ~ctxCancelled
    /\ fpc # "failed"
    /\ ctxCancelled' = TRUE
    /\ UNCHANGED <<body, rest, ending, bodyClosed, eventName, dataBuf, fpc, fev,
                   eventsClosed, streamErr, framed, sentinelSeen, ssSent, ssErr>>
    /\ UNCHANGED <<reqVars, gemVars, accVars, pipeVars, normVars, authVars, marshalVars, parseVars>>

\* stream.Close, that is resp.Body.Close.
CloseBody == bodyClosed' = TRUE

\* startStream called on its own with the method and a path of the caller's
\* (src/unnamed/part_013, line 214, and src/stream_test.go, lines 33-42), by
\* a caller that ranges over stream.Events.
MaxStartChunks == 1

StartStreamCall ==
    /\ \E path \in StartPaths :
          \/ StartStreamOK(method, path, BodiesOf(StreamChunks, MaxStartChunks))
          \/ StartStreamFails(method, path)
    /\ UNCHANGED <<reqVars, gemVars, accVars, pipeVars, normVars, authVars, marshalVars, parseVars>>

DirectRecv ==
    /\ FramerDelivered
    /\ UNCHANGED <<reqVars, gemVars, accVars, pipeVars, normVars, authVars, marshalVars, parseVars>>

(***************************************************************************)
(* The blocking Gemini call: CreateModelContent (src/unnamed/part_013).    *)
(***************************************************************************)
\* A nil json.RawMessage, as opposed to an empty one.
NilRaw == <<"<nil>">>
ErrEmptyResponse == [kind |-> "gemini: empty response"]

GeminiInit ==
    /\ gpc = "call"
    /\ last = NilRaw
    /\ gret = [body |-> NilRaw, err |-> NoErr]

\* Lines 15-23: jsonBody, then startStream.
GeminiStartStream ==
    /\ gpc = "call"
    /\ \E path \in ModelsPaths :
          \/ /\ StartStreamOK("POST", path, BodiesOf(Chunks, MaxChunks))
             /\ gpc' = "range"
             /\ UNCHANGED <<last, gret>>
          \/ /\ StartStreamFails("POST", path)
             /\ gpc' = "done"
             /\ gret' = [body |-> NilRaw, err |-> ssErr']
             /\ UNCHANGED last
    /\ UNCHANGED <<reqVars, accVars, pipeVars, normVars, authVars, marshalVars, parseVars>>

GeminiKeepAny(ev) == ev.Data

\* Lines 31-33: the body of the loop.
GeminiKeep(ev) == IF Len(ev.Data) > 0 THEN ev.Data ELSE last

\* Lines 30-34: one iteration of the loop, receiving the event the framer
\* is sending.
GeminiRecv ==
    /\ gpc = "range"
    /\ FramerDelivered
    /\ last' = GeminiKeep(fev)
    /\ UNCHANGED <<gpc, gret>>
    /\ UNCHANGED <<reqVars, accVars, pipeVars, normVars, authVars, marshalVars, parseVars>>

GeminiResultLastAsIs ==
    IF streamErr # NoErr THEN [body |-> NilRaw, err |-> streamErr]
    ELSE [body |-> last, err |-> NoErr]

\* A CreateModelContent that returns the last chunk it kept whenever it has
\* one, and looks at stream.Err only otherwise.
GeminiResultLastFirst ==
    IF last # NilRaw THEN [body |-> last, err |-> NoErr]
    ELSE IF streamErr # NoErr THEN [body |-> NilRaw, err |-> streamErr]
    ELSE [body |-> NilRaw, err |-> ErrEmptyResponse]

\* Lines 35-41, and the deferred stream.Close of line 24.
GeminiResult ==
    IF streamErr # NoErr THEN [body |-> NilRaw, err |-> streamErr]
    ELSE IF last = NilRaw THEN [body |-> NilRaw, err |-> ErrEmptyResponse]
    ELSE [body |-> last, err |-> NoErr]

\* The loop ends when the events channel is closed; lines 35-41 and the
\* deferred stream.Close follow.
GeminiReturn ==
    /\ gpc = "range"
    /\ eventsClosed > 0
    /\ gpc' = "done"
    /\ gret' = GeminiResult
    /\ CloseBody
    /\ UNCHANGED <<last, body, rest, ending, ctxCancelled, eventName, dataBuf, fpc, fev,
                   eventsClosed, streamErr, framed, sentinelSeen, ssSent, ssErr>>
    /\ UNCHANGED <<reqVars, accVars, pipeVars, normVars, authVars, marshalVars, parseVars>>

(***************************************************************************)
(* Normalized deltas (src/unnamed/part_004, lines 9-43).                   *)
(***************************************************************************)
DeltaText == "text"
DeltaReasoning == "reasoning"
DeltaToolCallBegin == "tool_call_begin"
DeltaToolCallArgumentsDelta == "tool_call_arguments_delta"
DeltaToolCallDone == "tool_call_done"
DeltaDone == "done"
DeltaUnknown == "unknown"

\* A NormalizedDelta with every field at its zero value but Type.
ZeroDelta(type) ==
    [Type |-> type, Content |-> "", ToolCallIndex |-> 0, ToolCallID |-> "",
     ToolCallName |-> "", ToolCallSignature |-> "", ArgumentsDelta |-> "",
     ArgumentsFull |-> ""]

(***************************************************************************)
(* Tool-call accumulator (src/unnamed/part_003).                           *)
(***************************************************************************)
\* Number of deltas applied to one accumulator.
MaxDeltas == 3
\* Tool-call indices range over 0 .. MaxIndex.
MaxIndex == 1

\* strconv for the indices of the model (fmt.Sprintf("%d", i)).
Itoa(i) == CASE i = 0 -> "0" [] i = 1 -> "1" [] i = 2 -> "2" [] i = 3 -> "3"
             [] OTHER -> "n"

\* NewToolCallAccumulator
AccInit ==
    /\ calls = <<>>
    /\ order = <<>>
    /\ applied = <<>>
    /\ applyRet = <<>>
    /\ apc = "apply"
    /\ completed = <<>>

\* The deltas the model applies.
IdNameSig == {<<"", "", "">>, <<"id1", "f", "s">>, <<"id2", "g", "s2">>}
ArgFragments == {"", "a", "bc"}
FullArguments == {"", "F", "G"}

BeginDeltas ==
    {[ZeroDelta(DeltaToolCallBegin) EXCEPT !.ToolCallIndex = i, !.ToolCallID = t[1],
        !.ToolCallName = t[2], !.ToolCallSignature = t[3]] :
        i \in 0 .. MaxIndex, t \in IdNameSig}
ArgumentsDeltas ==
    {[ZeroDelta(DeltaToolCallArgumentsDelta) EXCEPT !.ToolCallIndex = i,
        !.ArgumentsDelta = a] : i \in 0 .. MaxIndex, a \in ArgFragments}
DoneDeltas ==
    {[ZeroDelta(DeltaToolCallDone) EXCEPT !.ToolCallIndex = i, !.ToolCallID = t[1],
        !.ToolCallName = t[2], !.ToolCallSignature = t[3], !.ArgumentsFull = f] :
        i \in 0 .. MaxIndex, t \in IdNameSig \ {<<"id1", "f", "s">>}, f \in FullArguments}
OtherDeltas ==
    {[ZeroDelta(DeltaText) EXCEPT !.Content = "t", !.ArgumentsDelta = "a"],
     [ZeroDelta(DeltaReasoning) EXCEPT !.Content = "t", !.ToolCallIndex = 1,
        !.ToolCallID = "id1", !.ToolCallName = "f"],
     ZeroDelta(DeltaDone),
     [ZeroDelta(DeltaUnknown) EXCEPT !.ArgumentsFull = "F"]}
AccDeltas == BeginDeltas \cup ArgumentsDeltas \cup DoneDeltas \cup OtherDeltas

\* ensure, lines 109-118: the state of an index, created when missing.
NewCallState(index) ==
    [index |-> index, id |-> "", name |-> "", sig |-> "", args |-> "", full |-> ""]

\* An ensure that starts the state of a new index from the state of the
\* index seen last.
ensureCallsFromLast(index) ==
    IF index \in DOMAIN calls THEN calls
    ELSE [i \in DOMAIN calls \cup {index} |->
            IF i # index THEN calls[i]
            ELSE IF order = <<>> THEN NewCallState(index)
            ELSE [calls[order[Len(order)]] EXCEPT !.index = index]]

ensureCalls(index) ==
    IF index \in DOMAIN calls THEN calls
    ELSE [i \in DOMAIN calls \cup {index} |->
            IF i = index THEN NewCallState(index) ELSE calls[i]]

ensureOrderNewestFirst(index) ==
    IF index \in DOMAIN calls THEN order ELSE <<index>> \o order

ensureOrder(index) ==
    IF index \in DOMAIN calls THEN order ELSE Append(order, index)

IsToolDeltaOrDone(delta) ==
    delta.Type \in {DeltaToolCallBegin, DeltaToolCallArgumentsDelta, DeltaToolCallDone,
                    DeltaDone}

IsToolDelta(delta) ==
    delta.Type \in {DeltaToolCallBegin, DeltaToolCallArgumentsDelta, DeltaToolCallDone}

ApplyToCallDoneOverwrites(call, delta) ==
    IF delta.Type = DeltaToolCallBegin
        THEN [call EXCEPT
                !.id = IF call.id = "" THEN delta.ToolCallID ELSE call.id,
                !.name = IF call.name = "" THEN delta.ToolCallName ELSE call.name,
                !.sig = IF call.sig = "" THEN delta.ToolCallSignature ELSE call.sig]
    ELSE IF delta.Type = DeltaToolCallArgumentsDelta
        THEN [call EXCEPT !.args = call.args \o delta.ArgumentsDelta]
    ELSE [call EXCEPT
                !.id = IF delta.ToolCallID # "" THEN delta.ToolCallID ELSE call.id,
                !.name = IF delta.ToolCallName # "" THEN delta.ToolCallName ELSE call.name,
                !.sig = IF delta.ToolCallSignature # "" THEN delta.ToolCallSignature
                        ELSE call.sig,
                !.full = IF delta.ArgumentsFull # "" THEN delta.ArgumentsFull
                         ELSE call.full]

ApplyToCallOverwriteArgs(call, delta) ==
    IF delta.Type = DeltaToolCallBegin
        THEN [call EXCEPT
                !.id = IF call.id = "" THEN delta.ToolCallID ELSE call.id,
                !.name = IF call.name = "" THEN delta.ToolCallName ELSE call.name,
                !.sig = IF call.sig = "" THEN delta.ToolCallSignature ELSE call.sig]
    ELSE IF delta.Type = DeltaToolCallArgumentsDelta
        THEN [call EXCEPT !.args = delta.ArgumentsDelta]
    ELSE [call EXCEPT
                !.id = IF call.id = "" THEN delta.ToolCallID ELSE call.id,
                !.name = IF call.name = "" THEN delta.ToolCallName ELSE call.name,
                !.sig = IF call.sig = "" THEN delta.ToolCallSignature ELSE call.sig,
                !.full = IF delta.ArgumentsFull # "" THEN delta.ArgumentsFull
                         ELSE call.full]

\* Lines 48-74: the effect of a tool-call delta on the state of its index.
ApplyToCall(call, delta) ==
    IF delta.Type = DeltaToolCallBegin
        THEN [call EXCEPT
                !.id = IF call.id = "" THEN delta.ToolCallID ELSE call.id,
                !.name = IF call.name = "" THEN delta.ToolCallName ELSE call.name,
                !.sig = IF call.sig = "" THEN delta.ToolCallSignature ELSE call.sig]
    ELSE IF delta.Type = DeltaToolCallArgumentsDelta
        THEN [call EXCEPT !.args = call.args \o delta.ArgumentsDelta]
    ELSE [call EXCEPT
                !.id = IF call.id = "" THEN delta.ToolCallID ELSE call.id,
                !.name = IF call.name = "" THEN delta.ToolCallName ELSE call.name,
                !.sig = IF call.sig = "" THEN delta.ToolCallSignature ELSE call.sig,
                !.full = IF delta.ArgumentsFull # "" THEN delta.ArgumentsFull
                         ELSE call.full]

\* Apply, lines 39-77.
Apply(delta) ==
    /\ apc = "apply"
    /\ Len(applied) < MaxDeltas
    /\ applied' = Append(applied, delta)
    /\ IF ~IsToolDelta(delta)
          THEN /\ applyRet' = Append(applyRet, FALSE)
               /\ UNCHANGED <<calls, order>>
          ELSE /\ applyRet' = Append(applyRet, TRUE)
               /\ order' = ensureOrder(delta.ToolCallIndex)
               /\ calls' = [ensureCalls(delta.ToolCallIndex) EXCEPT
                              ![delta.ToolCallIndex] = ApplyToCall(@, delta)]
    /\ UNCHANGED <<apc, completed>>
    /\ UNCHANGED <<reqVars, framerVars, gemVars, pipeVars, normVars, authVars, marshalVars, parseVars>>

AccApply == \E delta \in AccDeltas : Apply(delta)

\* Lines 91-104: the record built for one tracked index.
CompleteCall(call) ==
    [ID |-> IF call.id = "" THEN "tool-" \o Itoa(call.index) ELSE call.id,
     Name |-> call.name,
     Arguments |-> IF call.full = "" THEN call.args ELSE call.full,
     ThoughtSignature |-> call.sig]

\* CompleteCalls, lines 81-107 (nil and the empty slice are both <<>>).
CompleteCalls ==
    [k \in 1 .. Len(order) |-> CompleteCall(calls[order[k]])]

AccComplete ==
    /\ apc = "apply"
    /\ apc' = "done"
    /\ completed' = CompleteCalls
    /\ UNCHANGED <<calls, order, applied, applyRet>>
    /\ UNCHANGED <<reqVars, framerVars, gemVars, pipeVars, normVars, authVars, marshalVars, parseVars>>

(***************************************************************************)
(* Delta parser: ParseNormalizedEvent (src/unnamed/part_004).              *)
(*                                                                         *)
(* A JSON object is a record; a JSON array a sequence.  The top-level      *)
(* member "delta", a string for one dialect and an object for another, is  *)
(* wrapped as [str |-> ..] or [obj |-> ..] so that a decode into the wrong *)
(* Go type fails as json.Unmarshal does.                                   *)
(***************************************************************************)
EndpointAuto == ""
EndpointResponses == "responses"
EndpointMessages == "messages"
EndpointChatCompletions == "chat_completions"
EndpointModels == "models"

\* The JSON texts the tokens of a body stand for.
JsonJ1 ==
    [choices |-> <<[delta |-> [reasoning_content |-> "think", content |-> "answer"]]>>,
     candidates |-> <<[content |-> [parts |-> <<[text |-> "thinking", thought |-> TRUE],
                                               [text |-> "answer"]>>],
                      finishReason |-> "STOP"]>>]
JsonJ2 ==
    [type |-> "content_block_delta", index |-> 1,
     delta |-> [obj |-> [type |-> "input_json_delta", partial_json |-> "{\"x\":"]]]
JsonJ3 ==
    [type |-> "response.output_text.delta", delta |-> [str |-> "t"]]

JsonTokens == {"{J1}", "{J2}", "{J3}"}
JsonOf(tok) == CASE tok = "{J1}" -> JsonJ1 [] tok = "{J2}" -> JsonJ2 [] OTHER -> JsonJ3

\* The text of a sequence of symbols.
RECURSIVE Join(_)
Join(s) == IF s = <<>> THEN "" ELSE Head(s) \o Join(Tail(s))

\* Member k of object o, or d when o has no such member (the zero value of
\* the Go field).
Get(o, k, d) == IF k \in DOMAIN o THEN o[k] ELSE d

EmptyObject == <<>>

\* json.Unmarshal of the bytes of an event: the white space of JSON (space,
\* tab, line feed, carriage return) before and after the value is skipped,
\* and the bytes decode when what is left is the text of exactly one JSON
\* object.
SkipJSONSpace(data) == TrimSpace(data)
ValidJSON(data) == Len(SkipJSONSpace(data)) = 1 /\ SkipJSONSpace(data)[1] \in JsonTokens
Decode(data) == JsonOf(SkipJSONSpace(data)[1])

\* The top-level "delta" decodes into a Go string, or into a Go struct.
DeltaAsStringOK(o) == "delta" \notin DOMAIN o \/ "str" \in DOMAIN o.delta
DeltaAsObjectOK(o) == "delta" \notin DOMAIN o \/ "obj" \in DOMAIN o.delta
DeltaString(o) == IF "delta" \in DOMAIN o THEN o.delta.str ELSE ""
DeltaObject(o) == IF "delta" \in DOMAIN o THEN o.delta.obj ELSE EmptyObject

TextDelta(type, content) == [ZeroDelta(type) EXCEPT !.Content = content]

\* Lines 124-140: the deltas of one entry of tool_calls.
ChatToolCallDeltas(tc) ==
    LET fn == Get(tc, "function", EmptyObject)
        name == Get(fn, "name", "")
        arguments == Get(fn, "arguments", "")
        id == Get(tc, "id", "")
        index == Get(tc, "index", 0)
    IN  (IF name # "" \/ id # ""
            THEN <<[ZeroDelta(DeltaToolCallBegin) EXCEPT !.ToolCallIndex = index,
                      !.ToolCallID = id, !.ToolCallName = name]>>
            ELSE <<>>)
        \o
        (IF arguments # ""
            THEN <<[ZeroDelta(DeltaToolCallArgumentsDelta) EXCEPT
                      !.ToolCallIndex = index, !.ArgumentsDelta = arguments]>>
            ELSE <<>>)

\* Lines 103-146: the deltas of a decoded chunk.
ChatChunkDeltas(chunk) ==
         LET choices == Get(chunk, "choices", <<>>)
         IN  IF Len(choices) = 0 THEN <<>>
             ELSE LET delta == Get(choices[1], "delta", EmptyObject)
                      details == Get(delta, "reasoning_details", <<>>)
                      toolCalls == Get(delta, "tool_calls", <<>>)
                  IN  (IF Get(delta, "reasoning_content", "") # ""
                          THEN <<TextDelta(DeltaReasoning, delta.reasoning_content)>>
                          ELSE <<>>)
                      \o
                      (IF Get(delta, "reasoning", "") # ""
                          THEN <<TextDelta(DeltaReasoning, delta.reasoning)>>
                          ELSE <<>>)
                      \o
                      Concat([i \in 1 .. Len(details) |->
                                IF Get(details[i], "text", "") # ""
                                    THEN <<TextDelta(DeltaReasoning, details[i].text)>>
                                    ELSE <<>>])
                      \o
                      (IF Get(delta, "content", "") # ""
                          THEN <<TextDelta(DeltaText, delta.content)>>
                          ELSE <<>>)
                      \o
                      Concat([i \in 1 .. Len(toolCalls) |-> ChatToolCallDeltas(toolCalls[i])])
                      \o
                      (IF Get(choices[1], "finish_reason", "") # ""
                          THEN <<ZeroDelta(DeltaDone)>>
                          ELSE <<>>)

\* parseChatCompletionsDelta, lines 98-147.
parseChatCompletionsDelta(ev) ==
    IF ~ValidJSON(ev.Data) THEN <<>> ELSE ChatChunkDeltas(Decode(ev.Data))

\* extractResponsesFunctionCallItem, lines 239-267, on the decoded object.
extractResponsesFunctionCallItem(root) ==
    IF "item" \notin DOMAIN root THEN <<"", "">>
    ELSE LET item == root.item
         IN  IF "type" \in DOMAIN item /\ item.type # "function_call" THEN <<"", "">>
             ELSE <<IF "call_id" \in DOMAIN item THEN item.call_id
                    ELSE IF "id" \in DOMAIN item THEN item.id ELSE "",
                    IF "name" \in DOMAIN item THEN item.name
                    ELSE IF "tool_name" \in DOMAIN item THEN item.tool_name ELSE "">>

OrElse(s, fallback) == IF s = "" THEN fallback ELSE s

\* parseResponsesDelta, lines 171-237.
parseResponsesDelta(ev) ==
    IF ~ValidJSON(ev.Data) \/ ~DeltaAsStringOK(Decode(ev.Data)) THEN <<>>
    ELSE LET e == Decode(ev.Data)
             type == Get(e, "type", "")
             delta == DeltaString(e)
             outputIndex == Get(e, "output_index", 0)
             item == Get(e, "item", EmptyObject)
         IN  IF type = "response.output_text.delta"
                 THEN IF delta # "" THEN <<TextDelta(DeltaText, delta)>> ELSE <<>>
             ELSE IF type \in {"response.reasoning_summary_text.delta",
                               "response.reasoning.delta", "response.reasoning_text.delta"}
                 THEN IF delta # "" THEN <<TextDelta(DeltaReasoning, delta)>> ELSE <<>>
             ELSE IF type \in {"response.function_call_arguments_delta",
                               "response.function_call_arguments.delta"}
                 THEN IF delta # ""
                         THEN <<[ZeroDelta(DeltaToolCallArgumentsDelta) EXCEPT
                                   !.ToolCallIndex = outputIndex, !.ArgumentsDelta = delta]>>
                         ELSE <<>>
             ELSE IF type \in {"response.function_call_arguments_done",
                               "response.function_call_arguments.done"}
                 THEN <<[ZeroDelta(DeltaToolCallDone) EXCEPT
                           !.ToolCallIndex = outputIndex,
                           !.ToolCallID = OrElse(Get(e, "call_id", ""), Get(e, "item_id", "")),
                           !.ToolCallName = Get(e, "name", ""),
                           !.ArgumentsFull = Get(e, "arguments", "")]>>
             ELSE IF type = "response.output_item.added"
                 THEN IF Get(item, "type", "") = "function_call"
                         THEN LET callID0 == Get(item, "call_id", "")
                                  name0 == Get(item, "name", "")
                                  fb == IF callID0 = "" \/ name0 = ""
                                           THEN extractResponsesFunctionCallItem(e)
                                           ELSE <<"", "">>
                                  callID == OrElse(OrElse(callID0, fb[1]), Get(item, "id", ""))
                                  name == OrElse(OrElse(name0, fb[2]), Get(e, "name", ""))
                              IN  <<[ZeroDelta(DeltaToolCallBegin) EXCEPT
                                       !.ToolCallIndex = outputIndex,
                                       !.ToolCallID = callID, !.ToolCallName = name]>>
                         ELSE <<>>
             ELSE IF type \in {"response.completed", "response.done"}
                 THEN <<ZeroDelta(DeltaDone)>>
             ELSE <<>>

\* parseMessagesDelta, lines 292-344.
parseMessagesDelta(ev) ==
    IF ~ValidJSON(ev.Data) \/ ~DeltaAsObjectOK(Decode(ev.Data)) THEN <<>>
    ELSE LET e == Decode(ev.Data)
             evType == OrElse(Get(e, "type", ""), Join(ev.Event))
             index == Get(e, "index", 0)
             delta == DeltaObject(e)
             block == Get(e, "content_block", EmptyObject)
             deltaType == Get(delta, "type", "")
         IN  IF evType = "content_block_start"
                 THEN IF Get(block, "type", "") = "tool_use"
                         THEN <<[ZeroDelta(DeltaToolCallBegin) EXCEPT
                                   !.ToolCallIndex = index,
                                   !.ToolCallID = Get(block, "id", ""),
                                   !.ToolCallName = Get(block, "name", "")]>>
                         ELSE <<>>
             ELSE IF evType = "content_block_delta"
                 THEN IF deltaType = "text_delta" /\ Get(delta, "text", "") # ""
                         THEN <<TextDelta(DeltaText, delta.text)>>
                      ELSE IF deltaType = "thinking_delta" /\ Get(delta, "thinking", "") # ""
                         THEN <<TextDelta(DeltaReasoning, delta.thinking)>>
                      ELSE IF deltaType = "input_json_delta" /\ Get(delta, "partial_json", "") # ""
                         THEN <<[ZeroDelta(DeltaToolCallArgumentsDelta) EXCEPT
                                   !.ToolCallIndex = index,
                                   !.ArgumentsDelta = delta.partial_json]>>
                      ELSE <<>>
             ELSE IF evType = "message_stop"
                 THEN <<ZeroDelta(DeltaDone)>>
             ELSE <<>>

\* encodeGeminiToolCallID is called at line 385 and defined in no file of
\* src/; the specification's table gives the id of part i as "gemini-<i>",
\* so the function is taken to return its first argument.
encodeGeminiToolCallID(callID, signature) == callID

\* Lines 382-421: the deltas of part i (0-based) of a Gemini candidate.
GeminiPartDeltas(part, i) ==
    IF "functionCall" \in DOMAIN part
        THEN LET callID == encodeGeminiToolCallID("gemini-" \o Itoa(i),
                                                  Get(part, "thoughtSignature", ""))
                 name == Get(part.functionCall, "name", "")
                 args == Get(part.functionCall, "args", "")
                 sig == Get(part, "thoughtSignature", "")
             IN  <<[ZeroDelta(DeltaToolCallBegin) EXCEPT !.ToolCallIndex = i,
                      !.ToolCallID = callID, !.ToolCallName = name,
                      !.ToolCallSignature = sig]>>
                 \o
                 (IF Len(args) > 0
                     THEN <<[ZeroDelta(DeltaToolCallArgumentsDelta) EXCEPT
                               !.ToolCallIndex = i, !.ToolCallID = callID,
                               !.ArgumentsDelta = args],
                            [ZeroDelta(DeltaToolCallDone) EXCEPT
                               !.ToolCallIndex = i, !.ToolCallID = callID,
                               !.ToolCallName = name, !.ToolCallSignature = sig,
                               !.ArgumentsFull = args]>>
                     ELSE <<>>)
        ELSE IF Get(part, "text", "") = "" THEN <<>>
        ELSE IF Get(part, "thought", FALSE)
            THEN <<TextDelta(DeltaReasoning, part.text)>>
            ELSE <<TextDelta(DeltaText, part.text)>>

\* A parser that takes every non-empty finishReason for the end of the turn.
GeminiChunkDeltasAnyReason(chunk) ==
         LET candidates == Get(chunk, "candidates", <<>>)
         IN  IF Len(candidates) = 0 THEN <<>>
             ELSE LET cand == candidates[1]
                      parts == Get(Get(cand, "content", EmptyObject), "parts", <<>>)
                      finishReason == Get(cand, "finishReason", "")
                  IN  Concat([i \in 1 .. Len(parts) |-> GeminiPartDeltas(parts[i], i - 1)])
                      \o
                      (IF finishReason # "" THEN <<ZeroDelta(DeltaDone)>> ELSE <<>>)

\* Lines 375-427: the deltas of a decoded chunk.
GeminiChunkDeltas(chunk) ==
         LET candidates == Get(chunk, "candidates", <<>>)
         IN  IF Len(candidates) = 0 THEN <<>>
             ELSE LET cand == candidates[1]
                      parts == Get(Get(cand, "content", EmptyObject), "parts", <<>>)
                      finishReason == Get(cand, "finishReason", "")
                  IN  Concat([i \in 1 .. Len(parts) |-> GeminiPartDeltas(parts[i], i - 1)])
                      \o
                      (IF finishReason # "" /\ finishReason # "FINISH_REASON_UNSPECIFIED"
                          THEN <<ZeroDelta(DeltaDone)>>
                          ELSE <<>>)

\* parseGeminiDelta, lines 370-428.
parseGeminiDelta(ev) ==
    IF ~ValidJSON(ev.Data) THEN <<>> ELSE GeminiChunkDeltas(Decode(ev.Data))

\* ParseNormalizedEvent, lines 50-67.
ParseNormalizedEvent(ev) ==
    IF Len(ev.Data) = 0 THEN <<>>
    ELSE IF ev.Endpoint = EndpointChatCompletions THEN parseChatCompletionsDelta(ev)
    ELSE IF ev.Endpoint = EndpointResponses THEN parseResponsesDelta(ev)
    ELSE IF ev.Endpoint = EndpointMessages THEN parseMessagesDelta(ev)
    ELSE IF ev.Endpoint = EndpointModels THEN parseGeminiDelta(ev)
    ELSE <<>>

(***************************************************************************)
(* Streaming facade: StreamEvents and Stream (src/unified.go), and the     *)
(* caller that receives the deltas.                                        *)
(***************************************************************************)
StreamEndpoints == {EndpointResponses, EndpointMessages, EndpointChatCompletions,
                    EndpointModels}

UnifiedEvent(ep, ev) == [Endpoint |-> ep, Event |-> ev.Event, Data |-> ev.Data, Raw |-> ev.Raw]
NoUnifiedEvent == UnifiedEvent(EndpointAuto, NoEvent)

PipeInit ==
    /\ endpoint = EndpointAuto
    /\ sepc = "idle"
    /\ sev = NoUnifiedEvent
    /\ outClosed = FALSE
    /\ errCh = <<>>
    /\ errChClosed = FALSE
    /\ stpc = "idle"
    /\ pend = <<>>
    /\ deltasClosed = FALSE
    /\ outErr = <<>>
    /\ outErrClosed = FALSE
    /\ cpc = "call"
    /\ got = <<>>
    /\ gotErr = NoErr

\* Stream, lines 103-126, calling StreamEvents, lines 29-100, calling
\* startStream: on success both goroutines are started.
StreamCall ==
    /\ cpc = "call"
    /\ \E path \in StartPaths :
          \/ /\ StartStreamOK("POST", path, BodiesOf(StreamChunks, MaxChunks))
             /\ endpoint' \in StreamEndpoints
             /\ sepc' = "recv"
             /\ stpc' = "recv"
             /\ cpc' = "recv"
          \/ /\ StartStreamFails("POST", path)
             /\ cpc' = "failed"
             /\ UNCHANGED <<endpoint, sepc, stpc>>
    /\ UNCHANGED <<sev, outClosed, errCh, errChClosed, pend, deltasClosed, outErr,
                   outErrClosed, got, gotErr>>
    /\ UNCHANGED <<reqVars, gemVars, accVars, normVars, authVars, marshalVars, parseVars>>

\* StreamEvents, lines 86-87: the loop receives the event the framer sends.
SERecv ==
    /\ sepc = "recv"
    /\ FramerDelivered
    /\ sev' = UnifiedEvent(endpoint, fev)
    /\ sepc' = "send"
    /\ UNCHANGED <<endpoint, outClosed, errCh, errChClosed, stpc, pend, deltasClosed,
                   outErr, outErrClosed, cpc, got, gotErr>>
    /\ UNCHANGED <<reqVars, gemVars, accVars, normVars, authVars, marshalVars, parseVars>>

\* A goroutine that reads stream.Err without waiting for the close of the
\* events channel.
SERangeEndEarly ==
    /\ sepc = "recv"
    /\ fpc \in {"read", "closed"}
    /\ errCh' = IF streamErr # NoErr THEN Append(errCh, streamErr) ELSE errCh
    /\ sepc' = "deferClose"
    /\ UNCHANGED <<endpoint, sev, outClosed, errChClosed, stpc, pend, deltasClosed,
                   outErr, outErrClosed, cpc, got, gotErr>>
    /\ UNCHANGED framerVars
    /\ UNCHANGED <<reqVars, gemVars, accVars, normVars, authVars, marshalVars, parseVars>>

\* StreamEvents, lines 86 and 94-96: the events channel is closed, the loop
\* ends and stream.Err, when set, is put into errCh.
SERangeEnd ==
    /\ sepc = "recv"
    /\ eventsClosed > 0
    /\ errCh' = IF streamErr # NoErr THEN Append(errCh, streamErr) ELSE errCh
    /\ sepc' = "deferClose"
    /\ UNCHANGED <<endpoint, sev, outClosed, errChClosed, stpc, pend, deltasClosed,
                   outErr, outErrClosed, cpc, got, gotErr>>
    /\ UNCHANGED framerVars
    /\ UNCHANGED <<reqVars, gemVars, accVars, normVars, authVars, marshalVars, parseVars>>

\* StreamEvents, line 84: the deferred stream.Close runs first.
SEDeferStreamClose ==
    /\ sepc = "deferClose"
    /\ CloseBody
    /\ sepc' = "deferCloseErrCh"
    /\ UNCHANGED <<endpoint, sev, outClosed, errCh, errChClosed, stpc, pend,
                   deltasClosed, outErr, outErrClosed, cpc, got, gotErr>>
    /\ UNCHANGED <<body, rest, ending, ctxCancelled, eventName, dataBuf, fpc, fev,
                   eventsClosed, streamErr, framed, sentinelSeen, ssSent, ssErr>>
    /\ UNCHANGED <<reqVars, gemVars, accVars, normVars, authVars, marshalVars, parseVars>>

\* A goroutine that leaves its error channel open.
SEDeferCloseErrChSkipped ==
    /\ sepc = "deferCloseErrCh"
    /\ sepc' = "deferCloseOut"
    /\ UNCHANGED <<endpoint, sev, outClosed, errCh, errChClosed, stpc, pend, deltasClosed,
                   outErr, outErrClosed, cpc, got, gotErr>>
    /\ UNCHANGED framerVars
    /\ UNCHANGED <<reqVars, gemVars, accVars, normVars, authVars, marshalVars, parseVars>>

\* StreamEvents, line 83: the deferred close(errCh) runs second.
SEDeferCloseErrCh ==
    /\ sepc = "deferCloseErrCh"
    /\ errChClosed' = TRUE
    /\ sepc' = "deferCloseOut"
    /\ UNCHANGED <<endpoint, sev, outClosed, errCh, stpc, pend, deltasClosed, outErr,
                   outErrClosed, cpc, got, gotErr>>
    /\ UNCHANGED framerVars
    /\ UNCHANGED <<reqVars, gemVars, accVars, normVars, authVars, marshalVars, parseVars>>

\* StreamEvents, line 82: the deferred close(out) runs last.
SEDeferCloseOut ==
    /\ sepc = "deferCloseOut"
    /\ outClosed' = TRUE
    /\ sepc' = "done"
    /\ UNCHANGED <<endpoint, sev, errCh, errChClosed, stpc, pend, deltasClosed, outErr,
                   outErrClosed, cpc, got, gotErr>>
    /\ UNCHANGED framerVars
    /\ UNCHANGED <<reqVars, gemVars, accVars, normVars, authVars, marshalVars, parseVars>>

\* Stream, lines 115-116: the loop receives the event StreamEvents sends
\* (line 87 completes) and parses it.
STRecv ==
    /\ stpc = "recv"
    /\ sepc = "send"
    /\ sepc' = "recv"
    /\ pend' = ParseNormalizedEvent(sev)
    /\ stpc' = IF ParseNormalizedEvent(sev) = <<>> THEN "recv" ELSE "send"
    /\ UNCHANGED <<endpoint, sev, outClosed, errCh, errChClosed, deltasClosed, outErr,
                   outErrClosed, cpc, got, gotErr>>
    /\ UNCHANGED framerVars
    /\ UNCHANGED <<reqVars, gemVars, accVars, normVars, authVars, marshalVars, parseVars>>

\* A loop that hands over the deltas of an event from the last one.
STSendLast ==
    /\ stpc = "send"
    /\ cpc = "recv"
    /\ got' = Append(got, pend[Len(pend)])
    /\ pend' = SubSeq(pend, 1, Len(pend) - 1)
    /\ stpc' = IF Len(pend) = 1 THEN "recv" ELSE "send"
    /\ UNCHANGED <<endpoint, sepc, sev, outClosed, errCh, errChClosed, deltasClosed,
                   outErr, outErrClosed, cpc, gotErr>>
    /\ UNCHANGED framerVars
    /\ UNCHANGED <<reqVars, gemVars, accVars, normVars, authVars, marshalVars, parseVars>>

\* Stream, line 117: the caller receives the next delta of the event.
STSend ==
    /\ stpc = "send"
    /\ cpc = "recv"
    /\ got' = Append(got, Head(pend))
    /\ pend' = Tail(pend)
    /\ stpc' = IF Tail(pend) = <<>> THEN "recv" ELSE "send"
    /\ UNCHANGED <<endpoint, sepc, sev, outClosed, errCh, errChClosed, deltasClosed,
                   outErr, outErrClosed, cpc, gotErr>>
    /\ UNCHANGED framerVars
    /\ UNCHANGED <<reqVars, gemVars, accVars, normVars, authVars, marshalVars, parseVars>>

\* Stream, line 115: the channel of StreamEvents is closed and the loop ends.
STRangeEnd ==
    /\ stpc = "recv"
    /\ outClosed
    /\ stpc' = "recvErr"
    /\ UNCHANGED <<endpoint, sepc, sev, outClosed, errCh, errChClosed, pend,
                   deltasClosed, outErr, outErrClosed, cpc, got, gotErr>>
    /\ UNCHANGED framerVars
    /\ UNCHANGED <<reqVars, gemVars, accVars, normVars, authVars, marshalVars, parseVars>>

\* A Stream goroutine that receives from errCh whenever it holds something,
\* deltas still pending or not.
STRecvErrFirst ==
    /\ stpc \in {"recv", "send", "recvErr"}
    /\ errCh # <<>> \/ errChClosed
    /\ IF errCh # <<>>
          THEN /\ errCh' = Tail(errCh)
               /\ outErr' = IF Head(errCh) # NoErr THEN Append(outErr, Head(errCh))
                            ELSE outErr
          ELSE UNCHANGED <<errCh, outErr>>
    /\ stpc' = "deferCloseOutErr"
    /\ UNCHANGED <<endpoint, sepc, sev, outClosed, errChClosed, pend, deltasClosed,
                   outErrClosed, cpc, got, gotErr>>
    /\ UNCHANGED framerVars
    /\ UNCHANGED <<reqVars, gemVars, accVars, normVars, authVars, marshalVars, parseVars>>

\* Stream, lines 120-122: receive from errCh (a value, or nil once it is
\* closed and empty) and forward a non-nil error into outErr.
STRecvErr ==
    /\ stpc = "recvErr"
    /\ errCh # <<>> \/ errChClosed
    /\ IF errCh # <<>>
          THEN /\ errCh' = Tail(errCh)
               /\ outErr' = IF Head(errCh) # NoErr THEN Append(outErr, Head(errCh))
                            ELSE outErr
          ELSE UNCHANGED <<errCh, outErr>>
    /\ stpc' = "deferCloseOutErr"
    /\ UNCHANGED <<endpoint, sepc, sev, outClosed, errChClosed, pend, deltasClosed,
                   outErrClosed, cpc, got, gotErr>>
    /\ UNCHANGED framerVars
    /\ UNCHANGED <<reqVars, gemVars, accVars, normVars, authVars, marshalVars, parseVars>>

\* Stream, line 114: the deferred close(outErr) runs first.
STDeferCloseOutErr ==
    /\ stpc = "deferCloseOutErr"
    /\ outErrClosed' = TRUE
    /\ stpc' = "deferCloseOut"
    /\ UNCHANGED <<endpoint, sepc, sev, outClosed, errCh, errChClosed, pend,
                   deltasClosed, outErr, cpc, got, gotErr>>
    /\ UNCHANGED framerVars
    /\ UNCHANGED <<reqVars, gemVars, accVars, normVars, authVars, marshalVars, parseVars>>

\* Stream, line 113: the deferred close(out) runs last.
STDeferCloseOut ==
    /\ stpc = "deferCloseOut"
    /\ deltasClosed' = TRUE
    /\ stpc' = "done"
    /\ UNCHANGED <<endpoint, sepc, sev, outClosed, errCh, errChClosed, pend, outErr,
                   outErrClosed, cpc, got, gotErr>>
    /\ UNCHANGED framerVars
    /\ UNCHANGED <<reqVars, gemVars, accVars, normVars, authVars, marshalVars, parseVars>>

\* The caller ranges over the delta channel until it is closed, then
\* receives from the error channel (the pattern of the repository's tests);
\* it may also stop receiving at any time.
CallerRangeEnd ==
    /\ cpc = "recv"
    /\ deltasClosed
    /\ cpc' = "recvErr"
    /\ UNCHANGED <<endpoint, sepc, sev, outClosed, errCh, errChClosed, stpc, pend,
                   deltasClosed, outErr, outErrClosed, got, gotErr>>
    /\ UNCHANGED framerVars
    /\ UNCHANGED <<reqVars, gemVars, accVars, normVars, authVars, marshalVars, parseVars>>

CallerRecvErr ==
    /\ cpc = "recvErr"
    /\ outErr # <<>> \/ outErrClosed
    /\ IF outErr # <<>>
          THEN gotErr' = Head(outErr) /\ outErr' = Tail(outErr)
          ELSE UNCHANGED <<gotErr, outErr>>
    /\ cpc' = "done"
    /\ UNCHANGED <<endpoint, sepc, sev, outClosed, errCh, errChClosed, stpc, pend,
                   deltasClosed, outErrClosed, got>>
    /\ UNCHANGED framerVars
    /\ UNCHANGED <<reqVars, gemVars, accVars, normVars, authVars, marshalVars, parseVars>>

CallerStop ==
    /\ cpc = "recv"
    /\ cpc' = "stopped"
    /\ UNCHANGED <<endpoint, sepc, sev, outClosed, errCh, errChClosed, stpc, pend,
                   deltasClosed, outErr, outErrClosed, got, gotErr>>
    /\ UNCHANGED framerVars
    /\ UNCHANGED <<reqVars, gemVars, accVars, normVars, authVars, marshalVars, parseVars>>

(***************************************************************************)
(* Dialect router: src/unified.go, lines 128-180.  A model id is a         *)
(* sequence of symbols; a symbol is one character or a run of characters   *)
(* ("opencode/", "gpt-") that the code compares and cuts as a whole.       *)
(***************************************************************************)
\* strings.ToLower on one symbol and on a string.
LowerSym(c) ==
    CASE c = "OpenCode/" -> "opencode/"
      [] c = "GPT-" -> "gpt-"
      [] c = "SYSTEM" -> "system"
      [] c = "HIGH" -> "high"
      [] c = "Bearer " -> "bearer "
      [] c = "BEARER " -> "bearer "
      [] OTHER -> c

ToLower(s) == [i \in 1 .. Len(s) |-> LowerSym(s[i])]

OpencodePrefix == <<"opencode/">>

\* Lines 166-172.
normalizeModelID(model) ==
    LET m == ToLower(TrimSpace(model))
    IN IF HasPrefix(m, OpencodePrefix) THEN TrimPrefix(m, OpencodePrefix) ELSE m

\* Lines 174-180: the prefix is recognised in lower case and cut from the
\* id as written.
stripOpencodePrefix(model) ==
    LET m == TrimSpace(model)
    IN IF HasPrefix(ToLower(m), OpencodePrefix)
           THEN SubSeq(m, Len(OpencodePrefix) + 1, Len(m))
           ELSE m

\* Lines 152-164.
routeForModel(model) ==
    LET m == normalizeModelID(model)
    IN CASE HasPrefix(m, <<"gpt-">>) -> EndpointResponses
         [] ~HasPrefix(m, <<"gpt-">>) /\ HasPrefix(m, <<"claude-">>) -> EndpointMessages
         [] ~HasPrefix(m, <<"gpt-">>) /\ ~HasPrefix(m, <<"claude-">>)
                /\ HasPrefix(m, <<"gemini-">>) -> EndpointModels
         [] OTHER -> EndpointChatCompletions

ErrModelRequired == [kind |-> "zen: model is required for model streaming"]
ErrUnsupportedEndpoint == [kind |-> "zen: unsupported endpoint"]

\* Lines 128-150: the endpoint, the path and the error returned.
resolveStreamEndpoint(req) ==
    LET ep == IF req.Endpoint = EndpointAuto THEN routeForModel(req.Model)
                                              ELSE req.Endpoint
        model == TrimSpace(stripOpencodePrefix(req.Model))
    IN CASE ep = EndpointResponses ->
                [endpoint |-> ep, path |-> <<"/responses">>, err |-> NoErr]
         [] ep = EndpointMessages ->
                [endpoint |-> ep, path |-> <<"/messages">>, err |-> NoErr]
         [] ep = EndpointChatCompletions ->
                [endpoint |-> ep, path |-> <<"/chat/completions">>, err |-> NoErr]
         [] ep = EndpointModels ->
                IF model = <<>>
                    THEN [endpoint |-> ep, path |-> <<>>, err |-> ErrModelRequired]
                    ELSE [endpoint |-> ep,
                          path |-> <<"/models/">> \o model
                                       \o <<":streamGenerateContent?alt=sse">>,
                          err |-> NoErr]
         [] OTHER -> [endpoint |-> ep, path |-> <<>>, err |-> ErrUnsupportedEndpoint]

(***************************************************************************)
(* Normalizer: src/normalized.go, lines 9-510.  Texts, roles and efforts   *)
(* are sequences of symbols.  A nil pointer is a record whose set field is *)
(* FALSE.  The requests of the model carry no tools, no temperature and no *)
(* extra map, so the branches of the translators for those fields are not  *)
(* taken.  The arguments of a tool call, the id of a call and the name of  *)
(* a function are strings; a nil json.RawMessage is "".                    *)
(***************************************************************************)
ToolChoiceAuto == "auto"
ToolChoiceNone == "none"
ToolChoiceRequired == "required"
ToolChoiceTool == "tool"

NilInt == [set |-> FALSE, val |-> 0]
IntPtr(v) == [set |-> TRUE, val |-> v]
NilReasoning == [set |-> FALSE, Effort |-> <<>>, BudgetTokens |-> 0]
NormalizedReasoning(effort, budget) ==
    [set |-> TRUE, Effort |-> effort, BudgetTokens |-> budget]
NilToolChoice == [set |-> FALSE, Type |-> "", Name |-> <<>>]
NormalizedToolChoice(type, name) == [set |-> TRUE, Type |-> type, Name |-> name]
NormalizedToolCall(id, name) == [ID |-> id, Name |-> name, Arguments |-> ""]
NormalizedMessage(role, content) ==
    [Role |-> role, Content |-> content, ToolCalls |-> <<>>, ToolCallID |-> "",
     FunctionName |-> ""]
AssistantMessage(content, tcs) ==
    [NormalizedMessage(<<"assistant">>, content) EXCEPT !.ToolCalls = tcs]
ToolMessage(content, id, name) ==
    [NormalizedMessage(<<"tool">>, content) EXCEPT !.ToolCallID = id,
                                                   !.FunctionName = name]

NormalizedRequest(model, system, messages, choice, reasoning, maxTokens, ep) ==
    [Model |-> model, System |-> system, Messages |-> messages, ToolChoice |-> choice,
     Reasoning |-> reasoning, MaxTokens |-> maxTokens, Stream |-> FALSE, Endpoint |-> ep]

ErrToolChoiceName == [kind |-> "zen: tool choice name is required"]
ErrToolChoiceUnsupported == [kind |-> "zen: unsupported tool choice"]

NilMapped == [set |-> FALSE, kind |-> "", name |-> <<>>]
Mapped(kind, name) == [set |-> TRUE, kind |-> kind, name |-> name]

\* Lines 373-394.
mapOpenAIToolChoice(choice) ==
    CASE choice.Type = ToolChoiceAuto -> [val |-> Mapped("auto", <<>>), err |-> NoErr]
      [] choice.Type = ToolChoiceNone -> [val |-> Mapped("none", <<>>), err |-> NoErr]
      [] choice.Type = ToolChoiceRequired ->
             [val |-> Mapped("required", <<>>), err |-> NoErr]
      [] choice.Type = ToolChoiceTool ->
             IF TrimSpace(choice.Name) = <<>>
                 THEN [val |-> NilMapped, err |-> ErrToolChoiceName]
                 ELSE [val |-> Mapped("function", choice.Name), err |-> NoErr]
      [] OTHER -> [val |-> NilMapped, err |-> ErrToolChoiceUnsupported]

\* A mapping that accepts a tool choice without a name.
mapAnthropicToolChoiceAnyName(choice) ==
    CASE choice.Type = ToolChoiceAuto -> [val |-> Mapped("auto", <<>>), err |-> NoErr]
      [] choice.Type = ToolChoiceRequired -> [val |-> Mapped("any", <<>>), err |-> NoErr]
      [] choice.Type = ToolChoiceTool -> [val |-> Mapped("tool", choice.Name), err |-> NoErr]
      [] choice.Type = ToolChoiceNone -> [val |-> NilMapped, err |-> NoErr]
      [] OTHER -> [val |-> NilMapped, err |-> ErrToolChoiceUnsupported]

\* Lines 396-412.
mapAnthropicToolChoice(choice) ==
    CASE choice.Type = ToolChoiceAuto -> [val |-> Mapped("auto", <<>>), err |-> NoErr]
      [] choice.Type = ToolChoiceRequired -> [val |-> Mapped("any", <<>>), err |-> NoErr]
      [] choice.Type = ToolChoiceTool ->
             IF TrimSpace(choice.Name) = <<>>
                 THEN [val |-> NilMapped, err |-> ErrToolChoiceName]
                 ELSE [val |-> Mapped("tool", choice.Name), err |-> NoErr]
      [] choice.Type = ToolChoiceNone -> [val |-> NilMapped, err |-> NoErr]
      [] OTHER -> [val |-> NilMapped, err |-> ErrToolChoiceUnsupported]

\* Lines 494-510: the mode, and the one allowed function name if any.
mapGeminiToolChoice(choice) ==
    CASE choice.Type = ToolChoiceAuto -> [val |-> Mapped("AUTO", <<>>), err |-> NoErr]
      [] choice.Type = ToolChoiceNone -> [val |-> Mapped("NONE", <<>>), err |-> NoErr]
      [] choice.Type = ToolChoiceRequired -> [val |-> Mapped("ANY", <<>>), err |-> NoErr]
      [] choice.Type = ToolChoiceTool ->
             IF TrimSpace(choice.Name) = <<>>
                 THEN [val |-> NilMapped, err |-> ErrToolChoiceName]
                 ELSE [val |-> Mapped("ANY", choice.Name), err |-> NoErr]
      [] OTHER -> [val |-> NilMapped, err |-> ErrToolChoiceUnsupported]

\* Lines 468-479.
mapEffortToBudget(effort) ==
    LET e == ToLower(TrimSpace(effort))
    IN CASE e = <<"low">> -> 1024
         [] e = <<"medium">> -> 2048
         [] e = <<"high">> -> 4096
         [] OTHER -> 0

\* Lines 481-492.
mapEffortToThinkingLevel(effort) ==
    LET e == ToLower(TrimSpace(effort))
    IN CASE e = <<"low">> -> <<"LOW">>
         [] e = <<"medium">> -> <<"MEDIUM">>
         [] e = <<"high">> -> <<"HIGH">>
         [] OTHER -> <<>>

\* The effort copied to a Responses or Chat Completions body, lines 106-108
\* and 165-167.
EffortOf(r) ==
    IF r.Reasoning.set /\ r.Reasoning.Effort # <<>>
        THEN [set |-> TRUE, Effort |-> r.Reasoning.Effort]
        ELSE [set |-> FALSE, Effort |-> <<>>]

\* A translator's return value.
NilBody == [type |-> "nil"]
Translated(b) == [body |-> b, err |-> NoErr]
Failed(e) == [body |-> NilBody, err |-> e]

\* The items of the Input array of a Responses body.
ResponsesInputMessage(role, content) == [Role |-> role, Content |-> content]
ResponsesFunctionCall(tc) ==
    [Type |-> "function_call", CallID |-> tc.ID, Name |-> tc.Name,
     Arguments |-> tc.Arguments]
ResponsesFunctionCallOutput(m) ==
    [Type |-> "function_call_output", CallID |-> m.ToolCallID, Output |-> m.Content]

\* Lines 75-101, from message i on: a tool result becomes a
\* function_call_output item, an assistant message with tool calls its
\* text, when not blank, followed by one function_call item per call.
RECURSIVE ResponsesItemsFrom(_, _, _)
ResponsesItemsFrom(msgs, i, items) ==
    IF i > Len(msgs) THEN items
    ELSE LET m == msgs[i]
             role == ToLower(TrimSpace(m.Role))
         IN IF role = <<"tool">>
                THEN ResponsesItemsFrom(msgs, i + 1,
                         Append(items, ResponsesFunctionCallOutput(m)))
                ELSE IF role = <<"assistant">> /\ Len(m.ToolCalls) > 0
                    THEN ResponsesItemsFrom(msgs, i + 1,
                             items
                             \o (IF TrimSpace(m.Content) # <<>>
                                     THEN <<ResponsesInputMessage(m.Role, m.Content)>>
                                     ELSE <<>>)
                             \o [j \in 1 .. Len(m.ToolCalls) |->
                                    ResponsesFunctionCall(m.ToolCalls[j])])
                    ELSE ResponsesItemsFrom(msgs, i + 1,
                             Append(items, ResponsesInputMessage(m.Role, m.Content)))

\* Lines 62-131.  Input is the empty string when there are no messages.
ToResponsesRequest(r) ==
    LET items == ResponsesItemsFrom(r.Messages, 1, <<>>)
        choice == IF r.ToolChoice.set THEN mapOpenAIToolChoice(r.ToolChoice)
                                      ELSE [val |-> NilMapped, err |-> NoErr]
    IN IF choice.err # NoErr
           THEN Failed(choice.err)
           ELSE Translated([type |-> "ResponsesRequest",
                            Model |-> r.Model,
                            Instructions |-> r.System,
                            Input |-> items,
                            MaxOutputTokens |-> r.MaxTokens,
                            Stream |-> r.Stream,
                            Reasoning |-> EffortOf(r),
                            ToolChoice |-> choice.val])

\* A ChatMessage, and the message of lines 139-153 for one normalized
\* message: its role, content and tool-call id as written, its tool calls
\* as calls of type function.
ChatMessage(role, content) ==
    [Role |-> role, Content |-> content, ToolCallID |-> "", ToolCalls |-> <<>>]
ChatMessageToolCall(tc) ==
    [ID |-> tc.ID, Type |-> "function",
     Function |-> [Name |-> tc.Name, Arguments |-> tc.Arguments]]
ChatMessageOf(m) ==
    [ChatMessage(m.Role, m.Content) EXCEPT
        !.ToolCallID = m.ToolCallID,
        !.ToolCalls = [j \in 1 .. Len(m.ToolCalls) |-> ChatMessageToolCall(m.ToolCalls[j])]]

\* Lines 133-188.
ToChatCompletionsRequest(r) ==
    LET lead == IF TrimSpace(r.System) # <<>>
                    THEN <<ChatMessage(<<"system">>, r.System)>>
                    ELSE <<>>
        messages == lead \o [i \in 1 .. Len(r.Messages) |-> ChatMessageOf(r.Messages[i])]
        choice == IF r.ToolChoice.set THEN mapOpenAIToolChoice(r.ToolChoice)
                                      ELSE [val |-> NilMapped, err |-> NoErr]
    IN IF choice.err # NoErr
           THEN Failed(choice.err)
           ELSE Translated([type |-> "ChatCompletionsRequest",
                            Model |-> r.Model,
                            Messages |-> messages,
                            MaxTokens |-> r.MaxTokens,
                            Stream |-> r.Stream,
                            Reasoning |-> EffortOf(r),
                            ToolChoice |-> choice.val])

\* An AnthropicContentBlock with every field at its zero value but Type, and
\* the blocks of lines 433-436 and 443-454.
AnthropicContentBlock(type) ==
    [Type |-> type, Text |-> <<>>, ID |-> "", Name |-> "", Input |-> "",
     ToolUseID |-> "", Content |-> <<>>]
ToolResultBlock(m) ==
    [AnthropicContentBlock("tool_result") EXCEPT !.ToolUseID = m.ToolCallID,
                                                 !.Content = m.Content]
TextBlock(content) == [AnthropicContentBlock("text") EXCEPT !.Text = content]
ToolUseBlock(tc) ==
    [AnthropicContentBlock("tool_use") EXCEPT !.ID = tc.ID, !.Name = tc.Name,
                                              !.Input = tc.Arguments]
\* An AnthropicMessage: Content is a text or a sequence of blocks.
AnthropicMessage(role, content) == [Role |-> role, Content |-> content]

\* Lines 414-466, from message i on: the system text and the messages built
\* so far are carried along.
RECURSIVE normalizeAnthropicFrom(_, _, _, _)
normalizeAnthropicFrom(msgs, i, combinedSystem, out) ==
    IF i > Len(msgs)
        THEN [system |-> combinedSystem, messages |-> out]
        ELSE LET m == msgs[i]
                 role == ToLower(TrimSpace(m.Role))
             IN IF role = <<"system">> \/ role = <<"developer">>
                    THEN IF TrimSpace(m.Content) # <<>>
                             THEN normalizeAnthropicFrom(msgs, i + 1,
                                      (IF combinedSystem # <<>>
                                           THEN combinedSystem \o <<LF, LF>>
                                           ELSE combinedSystem) \o m.Content,
                                      out)
                             ELSE normalizeAnthropicFrom(msgs, i + 1, combinedSystem, out)
                    ELSE IF role = <<"tool">>
                        THEN normalizeAnthropicFrom(msgs, i + 1, combinedSystem,
                                 Append(out, AnthropicMessage(<<"user">>,
                                                 <<ToolResultBlock(m)>>)))
                    ELSE IF role = <<"assistant">> /\ Len(m.ToolCalls) > 0
                        THEN normalizeAnthropicFrom(msgs, i + 1, combinedSystem,
                                 Append(out, AnthropicMessage(<<"assistant">>,
                                     (IF TrimSpace(m.Content) # <<>>
                                         THEN <<TextBlock(m.Content)>>
                                         ELSE <<>>)
                                     \o [j \in 1 .. Len(m.ToolCalls) |->
                                            ToolUseBlock(m.ToolCalls[j])])))
                    ELSE normalizeAnthropicFrom(msgs, i + 1, combinedSystem,
                             Append(out, AnthropicMessage(role, m.Content)))

normalizeAnthropicMessages(system, msgs) ==
    normalizeAnthropicFrom(msgs, 1, TrimSpace(system), <<>>)

\* Lines 199-205.
ThinkingBudget(r) ==
    IF r.Reasoning.set
        THEN IF r.Reasoning.BudgetTokens = 0 /\ r.Reasoning.Effort # <<>>
                 THEN mapEffortToBudget(r.Reasoning.Effort)
                 ELSE r.Reasoning.BudgetTokens
        ELSE 0

\* Lines 195 and 207-216: the budgets of the model are far below the width
\* of int, so the doubling does not wrap.
DefaultMaxTokens == 1024
MessagesMaxTokens(r) ==
    LET thinkingBudget == ThinkingBudget(r)
    IN IF ~r.MaxTokens.set
           THEN IF thinkingBudget > 0 /\ thinkingBudget >= DefaultMaxTokens
                    THEN IntPtr(thinkingBudget * 2)
                    ELSE IntPtr(DefaultMaxTokens)
           ELSE r.MaxTokens

\* Lines 190-256.
ToMessagesRequest(r) ==
    LET nm == normalizeAnthropicMessages(r.System, r.Messages)
        thinkingBudget == ThinkingBudget(r)
        thinking == IF thinkingBudget > 0
                        THEN [set |-> TRUE, Type |-> "enabled",
                              BudgetTokens |-> thinkingBudget]
                        ELSE [set |-> FALSE, Type |-> "", BudgetTokens |-> 0]
        none == r.ToolChoice.set /\ r.ToolChoice.Type = ToolChoiceNone
        choice == IF r.ToolChoice.set /\ ~none
                      THEN mapAnthropicToolChoice(r.ToolChoice)
                      ELSE [val |-> NilMapped, err |-> NoErr]
    IN IF choice.err # NoErr
           THEN Failed(choice.err)
           ELSE Translated([type |-> "MessagesRequest",
                            Model |-> r.Model,
                            System |-> nm.system,
                            Messages |-> nm.messages,
                            MaxTokens |-> MessagesMaxTokens(r),
                            Stream |-> r.Stream,
                            Thinking |-> thinking,
                            ToolChoice |-> choice.val])

ErrMissingFunctionName ==
    [kind |-> "zen: tool result message is missing FunctionName (required by Gemini)"]

\* Lines 265-269: the calls of one assistant message entered into the index
\* of names by call id, from call j on; a later entry replaces an earlier one.
RECURSIVE IndexToolCalls(_, _, _)
IndexToolCalls(index, tcs, j) ==
    IF j > Len(tcs) THEN index
    ELSE IF tcs[j].ID # "" /\ tcs[j].Name # ""
        THEN IndexToolCalls([k \in DOMAIN index \cup {tcs[j].ID} |->
                                IF k = tcs[j].ID THEN tcs[j].Name ELSE index[k]],
                            tcs, j + 1)
        ELSE IndexToolCalls(index, tcs, j + 1)

\* Lines 262-271: callIDToName over all the messages, from message i on.
RECURSIVE callIDToNameFrom(_, _, _)
callIDToNameFrom(index, msgs, i) ==
    IF i > Len(msgs) THEN index
    ELSE IF ToLower(TrimSpace(msgs[i].Role)) = <<"assistant">>
        THEN callIDToNameFrom(IndexToolCalls(index, msgs[i].ToolCalls, 1), msgs, i + 1)
        ELSE callIDToNameFrom(index, msgs, i + 1)

NoFunctionResponse == [set |-> FALSE, Name |-> "", Output |-> <<>>]
GeminiContent(role, text, response, tcs) ==
    [Role |-> role, Text |-> text, FunctionResponse |-> response, FunctionCalls |-> tcs]

\* Lines 273-321: the contents, from message i on, and the error that ends
\* the loop.
RECURSIVE GeminiContentsFrom(_, _, _, _)
GeminiContentsFrom(msgs, i, index, out) ==
    IF i > Len(msgs) THEN [contents |-> out, err |-> NoErr]
    ELSE LET m == msgs[i]
             role == ToLower(TrimSpace(m.Role))
             name == IF m.FunctionName # "" THEN m.FunctionName
                     ELSE IF m.ToolCallID \in DOMAIN index THEN index[m.ToolCallID]
                     ELSE ""
             grole == IF role = <<"assistant">> THEN <<"model">> ELSE role
         IN IF role = <<"tool">>
                THEN IF name = ""
                         THEN [contents |-> <<>>, err |-> ErrMissingFunctionName]
                         ELSE GeminiContentsFrom(msgs, i + 1, index,
                                  Append(out, GeminiContent(<<"user">>, <<>>,
                                      [set |-> TRUE, Name |-> name, Output |-> m.Content],
                                      <<>>)))
                ELSE IF grole = <<"model">> /\ Len(m.ToolCalls) > 0
                    THEN GeminiContentsFrom(msgs, i + 1, index,
                             Append(out, GeminiContent(grole, <<>>, NoFunctionResponse,
                                 [j \in 1 .. Len(m.ToolCalls) |->
                                     [Name |-> m.ToolCalls[j].Name,
                                      Args |-> m.ToolCalls[j].Arguments]])))
                    ELSE GeminiContentsFrom(msgs, i + 1, index,
                             Append(out, GeminiContent(grole, m.Content,
                                                       NoFunctionResponse, <<>>)))

\* Lines 258-371.
ToGeminiRequest(r) ==
    LET index == callIDToNameFrom([k \in {} |-> ""], r.Messages, 1)
        built == GeminiContentsFrom(r.Messages, 1, index, <<>>)
        systemInstruction ==
            IF TrimSpace(r.System) # <<>>
                THEN [set |-> TRUE, Role |-> <<"system">>, Text |-> r.System]
                ELSE [set |-> FALSE, Role |-> <<>>, Text |-> <<>>]
        level == IF r.Reasoning.set /\ r.Reasoning.Effort # <<>>
                     THEN mapEffortToThinkingLevel(r.Reasoning.Effort)
                     ELSE <<>>
        choice == IF r.ToolChoice.set THEN mapGeminiToolChoice(r.ToolChoice)
                                      ELSE [val |-> NilMapped, err |-> NoErr]
    IN IF built.err # NoErr
           THEN Failed(built.err)
           ELSE IF choice.err # NoErr
               THEN Failed(choice.err)
               ELSE Translated([type |-> "GeminiRequest",
                                Contents |-> built.contents,
                                SystemInstruction |-> systemInstruction,
                                Stream |-> r.Stream,
                                MaxOutputTokens |-> r.MaxTokens,
                                ThinkingLevel |-> level,
                                ToolConfig |-> choice.val])

(***************************************************************************)
(* Calls of the router and of the translators on one request.              *)
(***************************************************************************)
MaxModelLen == 3
MaxMessages == 2

\* Symbols of a model id, and the ids of the model.
ModelSymbols == {"opencode/", "OpenCode/", "gpt-", "GPT-", "claude-", "gemini-", " ", "x"}
ModelIds == UNION {[1 .. k -> ModelSymbols] : k \in 0 .. MaxModelLen}

\* Endpoint fields of the model: the declared constants and one value that
\* is none of them.
EndpointFields == StreamEndpoints \cup {EndpointAuto, "embeddings"}

Roles == {<<"system">>, <<"SYSTEM">>, <<"developer">>, <<"user">>}
Contents == {<<"A">>, <<" ">>}
MessageLists ==
    UNION {[1 .. k -> {NormalizedMessage(ro, co) : ro \in Roles, co \in Contents}] :
               k \in 0 .. MaxMessages}
Systems == {<<>>, <<"S">>, <<" ", "S">>}
MaxTokensFields == {NilInt, IntPtr(1), IntPtr(1024), IntPtr(2048), IntPtr(5000)}
ReasoningFields ==
    {NilReasoning} \cup
    {NormalizedReasoning(<<>>, b) : b \in {0, 1, 1024, 2048}} \cup
    {NormalizedReasoning(e, 0) : e \in {<<"low">>, <<"HIGH">>, <<"x">>}}
ToolChoiceFields ==
    {NilToolChoice,
     NormalizedToolChoice(ToolChoiceAuto, <<>>),
     NormalizedToolChoice(ToolChoiceNone, <<>>),
     NormalizedToolChoice(ToolChoiceTool, <<>>),
     NormalizedToolChoice(ToolChoiceTool, <<" ">>),
     NormalizedToolChoice(ToolChoiceTool, <<"A">>)}

\* Tool histories handed to the translators: assistant messages with tool
\* calls (one with two calls, one with arguments and a blank text), tool
\* results with and without an explicit function name, and a user message.
MaxHistory == 3
HistoryMessages ==
    {NormalizedMessage(<<"user">>, <<"A">>)} \cup
    {AssistantMessage(<<"A">>, cs) :
         cs \in {<<>>, <<NormalizedToolCall("c1", "f")>>, <<NormalizedToolCall("c1", "g")>>,
                 <<NormalizedToolCall("", "f")>>, <<NormalizedToolCall("c1", "")>>,
                 <<NormalizedToolCall("c1", "f"), NormalizedToolCall("c2", "g")>>}} \cup
    {AssistantMessage(<<" ">>,
         <<[NormalizedToolCall("c1", "f") EXCEPT !.Arguments = "{}"]>>)} \cup
    {ToolMessage(<<"A">>, id, fname) : id \in {"", "c1", "c2"}, fname \in {"", "h"}}
Histories == UNION {[1 .. k -> HistoryMessages] : k \in 0 .. MaxHistory}

NoResult == [fn |-> "", endpoint |-> "", path |-> <<>>, body |-> NilBody, err |-> NoErr]
Result(fn, ep, path, t) ==
    [fn |-> fn, endpoint |-> ep, path |-> path, body |-> t.body, err |-> t.err]

\* No call of the router or of a translator is under way.
NormIdle ==
    /\ nreq = NormalizedRequest(<<>>, <<>>, <<>>, NilToolChoice, NilReasoning, NilInt,
                                EndpointAuto)
    /\ npc = "call"
    /\ nres = NoResult

\* Requests handed to the translators.
NormInit ==
    /\ nreq \in {NormalizedRequest(<<"claude-", "x">>, s, ms, tc, re, mt, EndpointAuto) :
                     s \in Systems, ms \in MessageLists, tc \in ToolChoiceFields,
                     re \in ReasoningFields, mt \in MaxTokensFields}
    /\ npc = "call"
    /\ nres = NoResult

\* Requests whose thinking budget lies around the default max_tokens of
\* ToMessagesRequest and around half of it.
ThinkingBudgets == {-1, 0, 1, 512, 513, 600, 1023, 1024, 1025, 2048}
BudgetInit ==
    /\ nreq \in {NormalizedRequest(<<"claude-", "x">>, <<>>,
                                   <<NormalizedMessage(<<"user">>, <<"A">>)>>,
                                   NilToolChoice, re, mt, EndpointAuto) :
                     re \in {NilReasoning} \cup
                            {NormalizedReasoning(e, b) :
                                 e \in {<<>>, <<"low">>, <<"medium">>, <<"HIGH">>, <<"x">>},
                                 b \in ThinkingBudgets},
                     mt \in {NilInt, IntPtr(1), IntPtr(5000)}}
    /\ npc = "call"
    /\ nres = NoResult

\* Requests with a tool history.
HistoryInit ==
    /\ nreq \in {NormalizedRequest(<<"gemini-", "x">>, <<>>, ms, NilToolChoice,
                                   NilReasoning, NilInt, EndpointModels) :
                     ms \in Histories}
    /\ npc = "call"
    /\ nres = NoResult

\* Requests handed to the router.
RouteInit ==
    /\ nreq \in {NormalizedRequest(id, <<"S">>,
                                   <<NormalizedMessage(<<"user">>, <<"A">>)>>,
                                   NilToolChoice, NilReasoning, NilInt, ep) :
                     id \in ModelIds, ep \in EndpointFields}
    /\ npc = "call"
    /\ nres = NoResult

Returns(res) ==
    /\ npc = "call"
    /\ npc' = "done"
    /\ nres' = res
    /\ UNCHANGED nreq
    /\ UNCHANGED <<reqVars, framerVars, gemVars, accVars, pipeVars, authVars, marshalVars, parseVars>>

CallToResponsesRequest ==
    Returns(Result("ToResponsesRequest", "", <<>>, ToResponsesRequest(nreq)))

CallToChatCompletionsRequest ==
    Returns(Result("ToChatCompletionsRequest", "", <<>>, ToChatCompletionsRequest(nreq)))

CallToMessagesRequest ==
    Returns(Result("ToMessagesRequest", "", <<>>, ToMessagesRequest(nreq)))

CallToGeminiRequest ==
    Returns(Result("ToGeminiRequest", "", <<>>, ToGeminiRequest(nreq)))

CallRouteForModel ==
    Returns(Result("routeForModel", routeForModel(nreq.Model), <<>>,
                   [body |-> NilBody, err |-> NoErr]))

CallResolveStreamEndpoint ==
    LET r == resolveStreamEndpoint(nreq)
    IN Returns(Result("resolveStreamEndpoint", r.endpoint, r.path,
                      [body |-> NilBody, err |-> r.err]))

\* The translator StreamEvents calls for an endpoint: src/unified.go, lines
\* 38-66.
BodyFor(ep, req) ==
    CASE ep = EndpointResponses -> ToResponsesRequest(req)
      [] ep = EndpointMessages -> ToMessagesRequest(req)
      [] ep = EndpointChatCompletions -> ToChatCompletionsRequest(req)
      [] ep = EndpointModels -> ToGeminiRequest(req)
      [] OTHER -> Failed(ErrUnsupportedEndpoint)

\* StreamEvents, src/unified.go lines 29-73, up to the call of startStream:
\* the endpoint, the path and the body it passes, or the error it returns.
StreamEventsRequest(r) ==
    LET stripped == [r EXCEPT !.Model = stripOpencodePrefix(r.Model)]
        resolved == resolveStreamEndpoint(stripped)
        req == [stripped EXCEPT !.Stream = TRUE]
        t == BodyFor(resolved.endpoint, req)
    IN IF resolved.err # NoErr
           THEN Result("StreamEvents", "", <<>>, Failed(resolved.err))
           ELSE IF t.err # NoErr
                    THEN Result("StreamEvents", "", <<>>, t)
                    ELSE Result("StreamEvents", resolved.endpoint, resolved.path, t)

CallStreamEvents == Returns(StreamEventsRequest(nreq))

(***************************************************************************)
(* Request headers: src/auth.go, and the requests that doRequest           *)
(* (src/unnamed/part_000) and startStream (src/types_messages.go) build.   *)
(* The headers of a request are a function from header names to values; a  *)
(* value is a sequence of symbols.                                         *)
(***************************************************************************)
AuthHeaderAuto == "auto"
AuthHeaderBearer == "authorization"
AuthHeaderAPIKey == "x-api-key"
AuthHeaderGoogAPIKey == "x-goog-api-key"

\* http.Header of a new request, and Header.Set.
NoHeaders == [n \in {} |-> <<>>]
SetHeader(h, n, v) == [k \in DOMAIN h \cup {n} |-> IF k = n THEN v ELSE h[k]]

\* Lines 55-61.
setBearer(cfg, h) ==
    LET key == IF ~HasPrefix(ToLower(cfg.APIKey), <<"bearer ">>)
                   THEN <<"Bearer ">> \o cfg.APIKey
                   ELSE cfg.APIKey
    IN SetHeader(h, "Authorization", key)

\* Lines 63-65.
setAPIKey(cfg, h) == SetHeader(h, "x-api-key", cfg.APIKey)

\* Lines 67-69.
setGoogAPIKey(cfg, h) == SetHeader(h, "x-goog-api-key", cfg.APIKey)

\* A selection that sends the bearer header whatever the configured mode.
applyAuthHeadersBearerOnly(cfg, h, ep, forceAll) == setBearer(cfg, h)

\* Lines 28-53.
applyAuthHeaders(cfg, h, ep, forceAll) ==
    IF forceAll
        THEN setGoogAPIKey(cfg, setAPIKey(cfg, setBearer(cfg, h)))
        ELSE CASE cfg.AuthHeader = AuthHeaderBearer -> setBearer(cfg, h)
               [] cfg.AuthHeader = AuthHeaderAPIKey -> setAPIKey(cfg, h)
               [] cfg.AuthHeader = AuthHeaderGoogAPIKey -> setGoogAPIKey(cfg, h)
               [] OTHER ->
                      CASE ep = EndpointMessages -> setAPIKey(cfg, h)
                        [] ep = EndpointModels -> setGoogAPIKey(cfg, h)
                        [] OTHER -> setBearer(cfg, h)

\* Lines 8-26; bodySet is req.Body != nil.
applyRequestHeaders(cfg, h, bodySet, ep, streaming, forceAllAuth) ==
    LET h1 == IF bodySet THEN SetHeader(h, "Content-Type", <<"application/json">>) ELSE h
        h2 == IF streaming THEN SetHeader(h1, "Accept", <<"text/event-stream">>) ELSE h1
        h3 == applyAuthHeaders(cfg, h2, ep, forceAllAuth)
        h4 == IF ep = EndpointMessages
                  THEN SetHeader(h3, "anthropic-version", <<"2023-06-01">>)
                  ELSE h3
        h5 == IF ep = EndpointMessages /\ streaming
                  THEN SetHeader(h4, "anthropic-beta",
                                 <<"fine-grained-tool-streaming-2025-05-14">>)
                  ELSE h4
    IN SetHeader(h5, "User-Agent", cfg.UserAgent)

\* doRequest, src/unnamed/part_000 lines 34-39: the request of one attempt.
\* Its body is a reader over the body bytes, never nil.
doRequestHeaders(cfg, ep, forceAllAuth) ==
    applyRequestHeaders(cfg, NoHeaders, TRUE, ep, FALSE, forceAllAuth)

\* startStream, src/types_messages.go lines 106-116.
startStreamHeaders(cfg, bodyLen) ==
    LET h1 == IF bodyLen > 0
                  THEN SetHeader(NoHeaders, "Content-Type", <<"application/json">>)
                  ELSE NoHeaders
        h2 == SetHeader(h1, "Authorization", <<"Bearer ">> \o cfg.APIKey)
        h3 == SetHeader(h2, "User-Agent", cfg.UserAgent)
    IN SetHeader(h3, "Accept", <<"text/event-stream">>)

\* Configurations after applyDefaults (src/unnamed/part_014, lines 53-83):
\* the key is not blank and the mode is not empty; "basic" is a mode that is
\* none of the declared ones.
AuthModes == {AuthHeaderAuto, AuthHeaderBearer, AuthHeaderAPIKey, AuthHeaderGoogAPIKey,
              "basic"}
APIKeys == {<<"k">>, <<"Bearer ", "k">>, <<"BEARER ", "k">>}
Configs == {[AuthHeader |-> m, APIKey |-> k, UserAgent |-> <<"go-opencode-zen-sdk/0.1">>] :
                m \in AuthModes, k \in APIKeys}
HeaderCalls == {[cfg |-> c, endpoint |-> ep, forceAll |-> f, bodyLen |-> n] :
                    c \in Configs, ep \in StreamEndpoints \cup {EndpointAuto},
                    f \in BOOLEAN, n \in {0, 1}}

NoHeaderResult == [fn |-> "", headers |-> NoHeaders]

AuthIdle ==
    /\ hcall = [cfg |-> [AuthHeader |-> AuthHeaderAuto, APIKey |-> <<"k">>,
                         UserAgent |-> <<"go-opencode-zen-sdk/0.1">>],
                endpoint |-> EndpointAuto, forceAll |-> FALSE, bodyLen |-> 0]
    /\ hpc = "call"
    /\ hres = NoHeaderResult

AuthInit ==
    /\ hcall \in HeaderCalls
    /\ hpc = "call"
    /\ hres = NoHeaderResult

Prepared(fn, h) ==
    /\ hpc = "call"
    /\ hpc' = "done"
    /\ hres' = [fn |-> fn, headers |-> h]
    /\ UNCHANGED hcall
    /\ UNCHANGED <<reqVars, framerVars, gemVars, accVars, pipeVars, normVars, marshalVars, parseVars>>

CallApplyAuthHeaders ==
    Prepared("applyAuthHeaders",
             applyAuthHeaders(hcall.cfg, NoHeaders, hcall.endpoint, hcall.forceAll))

CallDoRequestHeaders ==
    Prepared("doRequest", doRequestHeaders(hcall.cfg, hcall.endpoint, hcall.forceAll))

CallStartStreamHeaders ==
    Prepared("startStream", startStreamHeaders(hcall.cfg, hcall.bodyLen))

(***************************************************************************)
(* Marshalling of a dialect body: src/marshal.go, and the MarshalJSON of   *)
(* MessagesRequest (src/types_messages.go, lines 49-77) and of             *)
(* ResponsesRequest (src/unnamed/part_007, lines 60-90).  A map and the    *)
(* JSON object json.Marshal writes for it are a function from keys to JSON *)
(* values; a JSON value is its kind and its text.                          *)
(***************************************************************************)
JString(s) == [kind |-> "string", text |-> s]
JBool(b) == [kind |-> "bool", text |-> IF b THEN <<"true">> ELSE <<"false">>]
JNumber(n) == [kind |-> "number", text |-> <<n>>]
JArray(items) == [kind |-> "array", text |-> items]
JObject(members) == [kind |-> "object", text |-> members]

\* map[string]any{} and base[k] = v.
EmptyMap == [k \in {} |-> JString(<<>>)]
Put(m, k, v) == [x \in DOMAIN m \cup {k} |-> IF x = k THEN v ELSE m[x]]
PutIf(cond, m, k, v) == IF cond THEN Put(m, k, v) ELSE m

\* src/marshal.go, lines 5-18.
marshalWithExtra(base, extra) ==
    IF Cardinality(DOMAIN extra) = 0
        THEN base
        ELSE [k \in DOMAIN base \cup DOMAIN extra |->
                 IF k \in DOMAIN base THEN base[k] ELSE extra[k]]

\* src/types_messages.go, lines 50-75: the base map of a MessagesRequest.
\* The bodies of the model carry no tools and no temperature.
MessagesBase(r) ==
    LET b0 == Put(Put(EmptyMap, "model", JString(r.Model)),
                  "messages", JArray(r.Messages))
        b1 == PutIf(r.System # <<>>, b0, "system", JString(r.System))
        b2 == PutIf(r.ToolChoice.set, b1, "tool_choice", JObject(<<r.ToolChoice.kind>>))
        b3 == PutIf(r.Thinking.set, b2, "thinking", JObject(<<r.Thinking.BudgetTokens>>))
        b4 == PutIf(r.MaxTokens.set, b3, "max_tokens", JNumber(r.MaxTokens.val))
    IN PutIf(r.Stream, b4, "stream", JBool(r.Stream))

\* src/types_messages.go, lines 49-77.
MessagesRequestMarshalJSON(r) == marshalWithExtra(MessagesBase(r), r.Extra)

\* src/unnamed/part_007, lines 61-87: the base map of a ResponsesRequest;
\* InputSet is r.Input != nil.
ResponsesBase(r) ==
    LET b0 == Put(EmptyMap, "model", JString(r.Model))
        b1 == PutIf(r.InputSet, b0, "input", JArray(r.Input))
        b2 == PutIf(r.Instructions # <<>>, b1, "instructions", JString(r.Instructions))
        b3 == PutIf(r.Reasoning.set, b2, "reasoning", JObject(r.Reasoning.Effort))
        b4 == PutIf(r.ToolChoice.set, b3, "tool_choice", JObject(<<r.ToolChoice.kind>>))
        b5 == PutIf(r.MaxOutputTokens.set, b4, "max_output_tokens",
                    JNumber(r.MaxOutputTokens.val))
    IN PutIf(r.Stream, b5, "stream", JBool(r.Stream))

\* src/unnamed/part_007, lines 60-90.
ResponsesRequestMarshalJSON(r) == marshalWithExtra(ResponsesBase(r), r.Extra)

\* Extra maps of the model: keys that name base fields and one that does not.
ExtraKeys == {"model", "system", "instructions", "stream", "user"}
ExtraValue(k) == IF k = "stream" THEN JBool(TRUE) ELSE JString(<<"E">>)
ExtraMaps == {[k \in ks |-> ExtraValue(k)] : ks \in SUBSET ExtraKeys}

MessagesBodies ==
    {[type |-> "MessagesRequest", Model |-> <<"claude-", "x">>, System |-> s,
      Messages |-> <<>>, MaxTokens |-> mt, Stream |-> st,
      Thinking |-> [set |-> FALSE, Type |-> "", BudgetTokens |-> 0],
      ToolChoice |-> tc, Extra |-> e] :
         s \in {<<>>, <<"S">>}, mt \in {NilInt, IntPtr(1024)}, st \in BOOLEAN,
         tc \in {NilMapped, Mapped("auto", <<>>)}, e \in ExtraMaps}

ResponsesBodies ==
    {[type |-> "ResponsesRequest", Model |-> <<"gpt-", "x">>, Instructions |-> s,
      InputSet |-> i, Input |-> <<>>, MaxOutputTokens |-> mt, Stream |-> st,
      Reasoning |-> [set |-> FALSE, Effort |-> <<>>],
      ToolChoice |-> tc, Extra |-> e] :
         s \in {<<>>, <<"S">>}, i \in BOOLEAN, mt \in {NilInt, IntPtr(1024)},
         st \in BOOLEAN, tc \in {NilMapped}, e \in ExtraMaps}

MarshalIdle ==
    /\ mcall = [type |-> "nil"]
    /\ mpc = "call"
    /\ mres = EmptyMap

MarshalInit ==
    /\ mcall \in MessagesBodies \cup ResponsesBodies
    /\ mpc = "call"
    /\ mres = EmptyMap

Marshalled(object) ==
    /\ mpc = "call"
    /\ mpc' = "done"
    /\ mres' = object
    /\ UNCHANGED mcall
    /\ UNCHANGED <<reqVars, framerVars, gemVars, accVars, pipeVars, normVars, authVars, parseVars>>

CallMessagesRequestMarshalJSON ==
    /\ mcall.type = "MessagesRequest"
    /\ Marshalled(MessagesRequestMarshalJSON(mcall))

CallResponsesRequestMarshalJSON ==
    /\ mcall.type = "ResponsesRequest"
    /\ Marshalled(ResponsesRequestMarshalJSON(mcall))

(***************************************************************************)
(* Calls of parseGeminiDelta and parseChatCompletionsDelta on one event    *)
(* (src/unnamed/part_004).  The data of the event is given by what         *)
(* json.Unmarshal makes of it: it is the text of a JSON object, or it does *)
(* not decode.                                                             *)
(***************************************************************************)
\* Number of parts of a Gemini candidate.
MaxParts == 2

GeminiPartInputs ==
    {[text |-> "t"],
     [text |-> "r", thought |-> TRUE],
     [text |-> ""],
     [functionCall |-> [name |-> "f", args |-> "{\"a\":1}"]],
     [functionCall |-> [name |-> "g", args |-> "{}"], thoughtSignature |-> "s"],
     [functionCall |-> [name |-> "f"]]}

GeminiPartLists == UNION {[1 .. k -> GeminiPartInputs] : k \in 0 .. MaxParts}

FinishReasons == {"", "STOP", "FINISH_REASON_UNSPECIFIED"}

GeminiChunkInputs ==
    {[candidates |-> <<>>]} \cup
    {[candidates |-> <<[content |-> [parts |-> ps]]>>] : ps \in GeminiPartLists} \cup
    {[candidates |-> <<[content |-> [parts |-> ps], finishReason |-> fr]>>] :
         ps \in GeminiPartLists, fr \in FinishReasons}

ChatDeltaKeys == {"reasoning_content", "reasoning_details", "content", "tool_calls"}
ChatDeltaValue(k) ==
    CASE k = "reasoning_content" -> "think"
      [] k = "reasoning_details" -> <<[text |-> "why"]>>
      [] k = "content" -> "answer"
      [] OTHER -> <<[index |-> 0, id |-> "c1",
                     function |-> [name |-> "f", arguments |-> "{\"a\":"]],
                    [index |-> 1, function |-> [arguments |-> "1}"]]>>
ChatDeltaInputs == {[k \in ks |-> ChatDeltaValue(k)] : ks \in SUBSET ChatDeltaKeys}

ChatChunkInputs ==
    {[choices |-> <<>>]} \cup
    {[choices |-> <<[delta |-> d]>>] : d \in ChatDeltaInputs} \cup
    {[choices |-> <<[delta |-> d, finish_reason |-> fr]>>] :
         d \in ChatDeltaInputs, fr \in {"", "stop", "tool_calls"}}

ParseInput(ep, ok, json) == [Endpoint |-> ep, ok |-> ok, json |-> json]

ParseInputs ==
    {ParseInput(EndpointModels, TRUE, c) : c \in GeminiChunkInputs} \cup
    {ParseInput(EndpointChatCompletions, TRUE, c) : c \in ChatChunkInputs} \cup
    {ParseInput(ep, FALSE, EmptyObject) : ep \in {EndpointModels, EndpointChatCompletions}}

ParseIdle ==
    /\ pin = ParseInput(EndpointAuto, FALSE, EmptyObject)
    /\ ppc = "call"
    /\ pout = <<>>

ParseInit ==
    /\ pin \in ParseInputs
    /\ ppc = "call"
    /\ pout = <<>>

Parsed(deltas) ==
    /\ ppc = "call"
    /\ ppc' = "done"
    /\ pout' = deltas
    /\ UNCHANGED pin
    /\ UNCHANGED <<reqVars, framerVars, gemVars, accVars, pipeVars, normVars, authVars,
                   marshalVars>>

\* parseGeminiDelta: json.Unmarshal of lines 371-374, then lines 375-427.
CallParseGeminiDelta ==
    /\ pin.Endpoint = EndpointModels
    /\ Parsed(IF ~pin.ok THEN <<>> ELSE GeminiChunkDeltas(pin.json))

\* parseChatCompletionsDelta: json.Unmarshal of lines 99-102, then lines
\* 103-146.
CallParseChatCompletionsDelta ==
    /\ pin.Endpoint = EndpointChatCompletions
    /\ Parsed(IF ~pin.ok THEN <<>> ELSE ChatChunkDeltas(pin.json))

(***************************************************************************)
(* Specifications.                                                         *)
(***************************************************************************)
\* While one component is exercised the others stay as constructed; the
\* transport is then left in one configuration.
ReqIdle == method = "POST" /\ maxRetries = 0 /\ ~retryOnNonIdempotent

InitReq == ReqInit /\ FramerInit /\ GeminiInit /\ AccInit /\ PipeInit /\ NormIdle /\ AuthIdle /\ MarshalIdle /\ ParseIdle
InitGemini == ReqInit /\ ReqIdle /\ FramerInit /\ GeminiInit /\ AccInit /\ PipeInit /\ NormIdle /\ AuthIdle /\ MarshalIdle /\ ParseIdle
InitStream == ReqInit /\ ReqIdle /\ FramerInit /\ GeminiInit /\ AccInit /\ PipeInit /\ NormIdle /\ AuthIdle /\ MarshalIdle /\ ParseIdle
InitAcc == ReqInit /\ ReqIdle /\ FramerInit /\ GeminiInit /\ AccInit /\ PipeInit /\ NormIdle /\ AuthIdle /\ MarshalIdle /\ ParseIdle

\* doRequest alone.
ReqNext ==
    \/ LoopExit
    \/ AttemptNewRequestError
    \/ AttemptTransportError
    \/ AttemptReadError
    \/ AttemptSuccess
    \/ AttemptStatusError

SpecReq == InitReq /\ [][ReqNext]_vars

\* doRequest alone, when every attempt ends: httpClient.Do and io.ReadAll
\* return, and time.Sleep returns after the backoff.
SpecReqFair == InitReq /\ [][ReqNext]_vars /\ WF_vars(ReqNext)

\* The framer under the blocking Gemini call.
GeminiNext ==
    \/ GeminiStartStream
    \/ FramerReadLine
    \/ FramerReadEOF
    \/ FramerReadError
    \/ GeminiRecv
    \/ GeminiReturn
    \/ Cancel

SpecGemini == InitGemini /\ [][GeminiNext]_vars

\* The framer under StreamEvents and Stream.
StreamNext ==
    \/ StreamCall
    \/ FramerReadLine
    \/ FramerReadEOF
    \/ FramerReadError
    \/ SERecv
    \/ SERangeEnd
    \/ SEDeferStreamClose
    \/ SEDeferCloseErrCh
    \/ SEDeferCloseOut
    \/ STRecv
    \/ STSend
    \/ STRangeEnd
    \/ STRecvErr
    \/ STDeferCloseOutErr
    \/ STDeferCloseOut
    \/ CallerRangeEnd
    \/ CallerRecvErr
    \/ CallerStop
    \/ Cancel

SpecStream == InitStream /\ [][StreamNext]_vars

\* startStream alone, under every method and every retry configuration of
\* the client.
InitStart == ReqInit /\ FramerInit /\ GeminiInit /\ AccInit /\ PipeInit /\ NormIdle /\ AuthIdle /\ MarshalIdle /\ ParseIdle

StartNext ==
    \/ StartStreamCall
    \/ FramerReadLine
    \/ FramerReadEOF
    \/ FramerReadError
    \/ DirectRecv
    \/ Cancel

SpecStart == InitStart /\ [][StartNext]_vars

\* The tool-call accumulator alone.
AccNext ==
    \/ AccApply
    \/ AccComplete

SpecAcc == InitAcc /\ [][AccNext]_vars

\* The translators, called directly and by StreamEvents.
InitNorm == ReqInit /\ ReqIdle /\ FramerInit /\ GeminiInit /\ AccInit /\ PipeInit /\ NormInit /\ AuthIdle /\ MarshalIdle /\ ParseIdle

NormNext ==
    \/ CallToResponsesRequest
    \/ CallToChatCompletionsRequest
    \/ CallToMessagesRequest
    \/ CallToGeminiRequest
    \/ CallStreamEvents

SpecNorm == InitNorm /\ [][NormNext]_vars

\* The router alone.
InitRoute == ReqInit /\ ReqIdle /\ FramerInit /\ GeminiInit /\ AccInit /\ PipeInit /\ RouteInit /\ AuthIdle /\ MarshalIdle /\ ParseIdle

RouteNext ==
    \/ CallRouteForModel
    \/ CallResolveStreamEndpoint
    \/ CallStreamEvents

SpecRoute == InitRoute /\ [][RouteNext]_vars

\* The four translators on tool histories.
InitHistory ==
    /\ ReqInit /\ ReqIdle /\ FramerInit /\ GeminiInit /\ AccInit /\ PipeInit
    /\ HistoryInit /\ AuthIdle /\ MarshalIdle /\ ParseIdle

HistoryNext ==
    \/ CallToResponsesRequest
    \/ CallToChatCompletionsRequest
    \/ CallToMessagesRequest
    \/ CallToGeminiRequest

SpecHistory == InitHistory /\ [][HistoryNext]_vars

\* ToMessagesRequest on requests with a thinking budget.
InitBudget ==
    /\ ReqInit /\ ReqIdle /\ FramerInit /\ GeminiInit /\ AccInit /\ PipeInit
    /\ BudgetInit /\ AuthIdle /\ MarshalIdle /\ ParseIdle

BudgetNext == CallToMessagesRequest

SpecBudget == InitBudget /\ [][BudgetNext]_vars

\* The Gemini and the ChatCompletions parser on one event.
InitParse ==
    /\ ReqInit /\ ReqIdle /\ FramerInit /\ GeminiInit /\ AccInit /\ PipeInit
    /\ NormIdle /\ AuthIdle /\ MarshalIdle /\ ParseInit

ParseNext ==
    \/ CallParseGeminiDelta
    \/ CallParseChatCompletionsDelta

SpecParse == InitParse /\ [][ParseNext]_vars

\* The preparation of request headers alone.
InitAuth ==
    /\ ReqInit /\ ReqIdle /\ FramerInit /\ GeminiInit /\ AccInit /\ PipeInit
    /\ NormIdle /\ AuthInit /\ MarshalIdle /\ ParseIdle

AuthNext ==
    \/ CallApplyAuthHeaders
    \/ CallDoRequestHeaders
    \/ CallStartStreamHeaders

SpecAuth == InitAuth /\ [][AuthNext]_vars

\* The marshalling of bodies alone.
InitMarshal ==
    /\ ReqInit /\ ReqIdle /\ FramerInit /\ GeminiInit /\ AccInit /\ PipeInit
    /\ NormIdle /\ AuthIdle /\ MarshalInit /\ ParseIdle

MarshalNext ==
    \/ CallMessagesRequestMarshalJSON
    \/ CallResponsesRequestMarshalJSON

SpecMarshal == InitMarshal /\ [][MarshalNext]_vars

(***************************************************************************)
(* Properties of the transport (checked under SpecReq).                    *)
(***************************************************************************)
\* What the properties call a method that is not idempotent, a success
\* status and a retryable status, written out from their statement.
NonIdempotentMethod == ToUpper(method) \notin {"GET", "HEAD", "OPTIONS"}
SuccessStatuses == 200 .. 299
RetryableStatuses == {429, 500, 502, 503, 504}
GotResponse == lastOutcome.kind = "response"

\* C1: a call with a non-idempotent method on a client that has not opted
\* in to non-idempotent retries sends at most one HTTP request, whatever
\* MaxRetries is and however the attempt ends.
C1_NonIdempotentSentOnce ==
    (NonIdempotentMethod /\ ~retryOnNonIdempotent) => sent <= 1

\* A POST with MaxRetries at its largest has returned after one request that
\* met a retryable status.
C1_Witness ==
    /\ method = "POST"
    /\ ~retryOnNonIdempotent
    /\ maxRetries = MaxRetriesBound
    /\ rqpc = "done"
    /\ sent = 1
    /\ GotResponse
    /\ lastOutcome.status = 503
    /\ lastOutcome.readErr = NoErr

\* C2 as stated: once an attempt receives a response with a status in
\* [200,300), the call has returned exactly the body of that response with
\* a nil error (and, having returned, sends nothing more).
C2_AsStated ==
    (GotResponse /\ lastOutcome.status \in SuccessStatuses)
        => /\ rqpc = "done"
           /\ ret.payload = lastOutcome.body
           /\ ret.err = NoErr

\* C2, amended: once an attempt receives a response with a status in
\* [200,300) the call has returned and sends nothing more; when the body of
\* that response was read without error, it returned exactly those bytes
\* with a nil error, and otherwise it returned the read error and no bytes.
C2_SuccessEndsCall ==
    (GotResponse /\ lastOutcome.status \in SuccessStatuses)
        => /\ rqpc = "done"
           /\ sent = attempt + 1
           /\ IF lastOutcome.readErr = NoErr
                 THEN ret.payload = lastOutcome.body /\ ret.err = NoErr
                 ELSE ret.payload = NilBytes /\ ret.err = lastOutcome.readErr

\* A GET succeeded with 204 and a non-empty body on its third attempt.
C2_Witness ==
    /\ GotResponse
    /\ lastOutcome.status = 204
    /\ lastOutcome.readErr = NoErr
    /\ lastOutcome.body = "b1"
    /\ ret.payload = "b1"
    /\ attempt = 2
    /\ sent = 3

\* C10 as stated: a non-2xx response is followed by another attempt only if
\* its status is retryable and attempts remain; any other non-2xx status
\* ends the call at that attempt with an APIError carrying that status.
C10_AsStated ==
    (GotResponse /\ lastOutcome.status \notin SuccessStatuses)
        => /\ rqpc = "loop" => (lastOutcome.status \in RetryableStatuses /\ attempt <= retries)
           /\ lastOutcome.status \notin RetryableStatuses
                => /\ rqpc = "done"
                   /\ ret.err.kind = "api"
                   /\ ret.err.status = lastOutcome.status

\* C10, amended: a non-2xx response is followed by another attempt only if
\* its status is retryable and attempts remain; a non-2xx response whose
\* body was read without error and whose status is not retryable, or that
\* came on the last attempt, ends the call at that attempt with an APIError
\* carrying that status and body; a non-2xx response whose body could not
\* be read ends the call at that attempt with the read error.
C10_RetryOnlyRetryableStatus ==
    (GotResponse /\ lastOutcome.status \notin SuccessStatuses)
        => /\ rqpc = "loop" => /\ lastOutcome.status \in RetryableStatuses
                               /\ attempt <= retries
                               /\ lastOutcome.readErr = NoErr
           /\ rqpc = "done" => sent = attempt + 1
           /\ (rqpc = "done" /\ lastOutcome.readErr = NoErr)
                => ret.err = [kind |-> "api", status |-> lastOutcome.status,
                              body |-> lastOutcome.body]
           /\ (lastOutcome.readErr = NoErr /\ lastOutcome.status \notin RetryableStatuses)
                => rqpc = "done"
           /\ lastOutcome.readErr # NoErr
                => rqpc = "done" /\ ret.err = lastOutcome.readErr

\* A GET met a 404 on its first attempt with retries left and returned.
C10_Witness ==
    /\ GotResponse
    /\ lastOutcome.status = 404
    /\ lastOutcome.readErr = NoErr
    /\ attempt = 0
    /\ retries = MaxRetriesBound
    /\ rqpc = "done"
    /\ ret.err.kind = "api"

(***************************************************************************)
(* Properties of the tool-call accumulator (checked under SpecAcc).        *)
(***************************************************************************)
ToolDeltaTypes == {"tool_call_begin", "tool_call_arguments_delta", "tool_call_done"}
ToolDeltasOf(ds) == SelectSeq(ds, LAMBDA d : d.Type \in ToolDeltaTypes)

\* The concatenation of the argument fragments of ds, in order.
RECURSIVE FragmentsOf(_)
FragmentsOf(ds) ==
    IF ds = <<>> THEN ""
    ELSE (IF Head(ds).Type = "tool_call_arguments_delta" THEN Head(ds).ArgumentsDelta ELSE "")
         \o FragmentsOf(Tail(ds))

\* The done deltas of ds that carry a non-empty ArgumentsFull.
FullsOf(ds) ==
    SelectSeq(ds, LAMBDA d : d.Type = "tool_call_done" /\ d.ArgumentsFull # "")

\* C6: when every tool-call delta applied carries the same index, the one
\* record CompleteCalls returns has Arguments equal to the concatenation of
\* the argument fragments in the order applied, unless a done delta carried
\* a non-empty ArgumentsFull: then Arguments is that ArgumentsFull (the
\* latest one, when several did).
C6_ArgumentsOfOneCall ==
    (/\ apc = "done"
     /\ ToolDeltasOf(applied) # <<>>
     /\ \A i, j \in 1 .. Len(applied) :
            (applied[i].Type \in ToolDeltaTypes /\ applied[j].Type \in ToolDeltaTypes)
                => applied[i].ToolCallIndex = applied[j].ToolCallIndex)
        => /\ Len(completed) = 1
           /\ completed[1].Arguments =
                 IF FullsOf(applied) = <<>>
                     THEN FragmentsOf(applied)
                     ELSE FullsOf(applied)[Len(FullsOf(applied))].ArgumentsFull

\* Two fragments were applied to index 1, in an order that matters, with a
\* done delta that carries no ArgumentsFull; the record holds "bca".
C6_Witness ==
    /\ apc = "done"
    /\ Len(applied) = 3
    /\ applied[1].Type = "tool_call_arguments_delta" /\ applied[1].ArgumentsDelta = "bc"
    /\ applied[2].Type = "tool_call_done" /\ applied[2].ArgumentsFull = ""
    /\ applied[3].Type = "tool_call_arguments_delta" /\ applied[3].ArgumentsDelta = "a"
    /\ \A i \in 1 .. 3 : applied[i].ToolCallIndex = 1
    /\ completed[1].Arguments = "bca"

(***************************************************************************)
(* Properties of the blocking Gemini call (checked under SpecGemini).      *)
(***************************************************************************)
NonEmptyData(evs) == SelectSeq(evs, LAMBDA e : e.Data # <<>>)

\* C7: a blocking Gemini call that returns without error returns the Data
\* of the last framed event whose Data was not empty, however many events
\* with empty Data come before or after it.
C7_ReturnsLastNonEmpty ==
    (gpc = "done" /\ gret.err = NoErr)
        => /\ NonEmptyData(framed) # <<>>
           /\ gret.body = NonEmptyData(framed)[Len(NonEmptyData(framed))].Data

\* The call returned the Data of the second of three events; the first has
\* other Data and the third has empty Data.
C7_Witness ==
    /\ gpc = "done"
    /\ gret.err = NoErr
    /\ Len(framed) = 3
    /\ framed[1].Data # <<>>
    /\ framed[2].Data # <<>>
    /\ framed[1].Data # framed[2].Data
    /\ framed[3].Data = <<>>
    /\ gret.body = framed[2].Data

(***************************************************************************)
(* Properties of the SSE framer (checked under SpecGemini, where the       *)
(* consumer receives every event the framer sends).                        *)
(***************************************************************************)
IsPrefixOf(a, b) == Len(a) <= Len(b) /\ SubSeq(b, 1, Len(a)) = a

\* C4: on each way the framer goroutine ends (the sentinel, EOF, a read
\* error) the events channel is closed; it is never closed twice; once it
\* is closed no event is sent on it and the goroutine takes no further
\* step.
C4_EventsClosedExactlyOnce ==
    [][/\ eventsClosed' <= 1
       /\ (fpc' = "closed") = (eventsClosed' = 1)
       /\ (sentinelSeen' \/ streamErr' # NoErr) => eventsClosed' = 1
       /\ (fpc = "read" /\ fpc' # "read" /\ IndexLF(rest) = 0 /\ ending = "eof"
                /\ ~ctxCancelled /\ ~bodyClosed)
             => (fpc' = "sendLast" \/ eventsClosed' = 1)
       /\ (fpc = "sendLast" /\ fpc' # "sendLast") => eventsClosed' = 1
       /\ eventsClosed = 1
             => (framed' = framed /\ fpc' = fpc /\ eventsClosed' = eventsClosed)]_vars

\* The goroutine ended on a read error after it had delivered an event.
C4_Witness ==
    /\ fpc = "closed"
    /\ eventsClosed = 1
    /\ streamErr = ErrRead
    /\ Len(framed) >= 1
    /\ gpc = "done"

\* C8: when a flushed data buffer is the literal [DONE] the stream ends
\* gracefully: no event ever carries the sentinel, the events channel is
\* closed, stream.Err is nil and stays nil, and nothing is read or emitted
\* afterwards, whatever bytes follow the sentinel in the body.
C8_DoneEndsStream ==
    /\ [](\A i \in 1 .. Len(framed) : framed[i].Data # <<"[", "D", "O", "N", "E", "]">>)
    /\ [](sentinelSeen => (fpc = "closed" /\ eventsClosed = 1 /\ streamErr = NoErr))
    /\ [][sentinelSeen => (framed' = framed /\ rest' = rest /\ streamErr' = NoErr)]_vars

\* The sentinel came after one event and before the bytes of another
\* frame, which were never read.
C8_Witness ==
    /\ sentinelSeen
    /\ body = ChunkFrame \o ChunkDone \o ChunkNamedFrame
    /\ rest = ChunkNamedFrame
    /\ framed = <<StreamEvent(<<>>, <<"{J2}">>)>>
    /\ gpc = "done"
    /\ gret.err = NoErr

\* The frames of a body, read off its bytes: the lines that end in a line
\* feed, without their line ends, cut at the empty lines.  A frame is
\* terminated when an empty line follows it, and unterminated when the
\* body ends in it.
RECURSIVE WrittenLines(_)
WrittenLines(bs) ==
    IF IndexLF(bs) = 0 THEN <<>>
    ELSE <<TrimRightCRLF(SubSeq(bs, 1, IndexLF(bs)))>>
            \o WrittenLines(SubSeq(bs, IndexLF(bs) + 1, Len(bs)))

RECURSIVE FramesOfLines(_, _)
FramesOfLines(ls, cur) ==
    IF ls = <<>>
        THEN IF cur = <<>> THEN <<>> ELSE <<[lines |-> cur, terminated |-> FALSE]>>
    ELSE IF Head(ls) = <<>>
        THEN (IF cur = <<>> THEN <<>> ELSE <<[lines |-> cur, terminated |-> TRUE]>>)
                \o FramesOfLines(Tail(ls), <<>>)
    ELSE FramesOfLines(Tail(ls), Append(cur, Head(ls)))

WrittenFrames(bs) == FramesOfLines(WrittenLines(bs), <<>>)

\* The data lines of a frame, its data (their contents joined by line
\* feeds) and its name (that of its last event line).
IsDataLine(l) == HasPrefix(l, DataPrefix)
IsEventLine(l) == HasPrefix(l, EventPrefix)
DataLinesOf(f) == SelectSeq(f.lines, IsDataLine)
RECURSIVE JoinLF(_)
JoinLF(ls) ==
    IF ls = <<>> THEN <<>>
    ELSE IF Len(ls) = 1 THEN Head(ls)
    ELSE Head(ls) \o <<LF>> \o JoinLF(Tail(ls))
DataOf(f) ==
    JoinLF([i \in 1 .. Len(DataLinesOf(f)) |->
               TrimSpace(SubSeq(DataLinesOf(f)[i], Len(DataPrefix) + 1, Len(DataLinesOf(f)[i])))])
NameOf(f) ==
    LET evs == SelectSeq(f.lines, IsEventLine)
    IN  IF evs = <<>> THEN <<>>
        ELSE TrimSpace(SubSeq(evs[Len(evs)], Len(EventPrefix) + 1, Len(evs[Len(evs)])))
HasData(f) == DataLinesOf(f) # <<>>
IsDoneFrame(f) == HasData(f) /\ DataOf(f) = <<"[", "D", "O", "N", "E", "]">>

\* The frames with data written before the sentinel, or all of them.
BeforeDone(fs) ==
    IF \E i \in 1 .. Len(fs) : IsDoneFrame(fs[i])
        THEN SubSeq(fs, 1, (CHOOSE i \in 1 .. Len(fs) :
                               IsDoneFrame(fs[i]) /\ \A j \in 1 .. i - 1 : ~IsDoneFrame(fs[j])) - 1)
        ELSE fs
DataFramesBeforeDone(bs) == BeforeDone(SelectSeq(WrittenFrames(bs), HasData))
EventsOfFrames(fs) == [i \in 1 .. Len(fs) |-> [Event |-> NameOf(fs[i]), Data |-> DataOf(fs[i]), Raw |-> DataOf(fs[i])]]
IsTerminated(f) == f.terminated

\* C9 as stated: when the stream has ended without error, the events
\* delivered are those of the blank-line-terminated frames written before
\* the sentinel or EOF, one for one and in order.
C9_AsStated ==
    (fpc = "closed" /\ streamErr = NoErr)
        => framed = EventsOfFrames(SelectSeq(DataFramesBeforeDone(body), IsTerminated))

\* C9, amended: the events delivered are always the events of the first
\* frames that carry a data line, in order and one for one, and when the
\* stream has ended without error they are those of all such frames
\* written before the sentinel or EOF: the blank-line-terminated ones and
\* also a last frame of complete lines that EOF leaves unterminated.
C9_EventsAreFramesWithData ==
    /\ IsPrefixOf(framed, EventsOfFrames(DataFramesBeforeDone(body)))
    /\ (fpc = "closed" /\ streamErr = NoErr)
          => framed = EventsOfFrames(DataFramesBeforeDone(body))

\* A frame of nothing but an event line, and a data line that EOF leaves
\* unterminated: one event, unnamed.
C9_Witness ==
    /\ fpc = "closed"
    /\ streamErr = NoErr
    /\ ending = "eof"
    /\ body = ChunkEventLine \o ChunkBlank \o ChunkDataLine
    /\ framed = <<StreamEvent(<<>>, <<"{J3}">>)>>

(***************************************************************************)
(* Properties of Stream (checked under SpecStream and FairSpecStream).     *)
(***************************************************************************)
\* The deltas of a sequence of framed events, in framing order.
DeltasOfEvents(evs) ==
    Concat([i \in 1 .. Len(evs) |-> ParseNormalizedEvent(UnifiedEvent(endpoint, evs[i]))])

\* C3: the deltas received from Stream are at every moment the first
\* deltas of the framed events taken in framing order, each event's deltas
\* in the parser's order, and once the delta channel is closed they are
\* all of them: none is lost, duplicated or reordered on the way through
\* the three goroutines.
C3_DeltasInFramingOrder ==
    /\ IsPrefixOf(got, DeltasOfEvents(framed))
    /\ deltasClosed => got = DeltasOfEvents(framed)

\* The caller has received up to the close of the channel the deltas of
\* three events, one of which yields two deltas and one of which none.
C3_Witness ==
    /\ cpc = "done"
    /\ Len(framed) = 3
    /\ Len(got) >= 3
    /\ \E i \in 1 .. 3 : Len(ParseNormalizedEvent(UnifiedEvent(endpoint, framed[i]))) >= 2
    /\ \E i \in 1 .. 3 : ParseNormalizedEvent(UnifiedEvent(endpoint, framed[i])) = <<>>
    /\ got[1] # got[2]

\* C5: once the context of a streaming call is cancelled while the framer
\* goroutine is running, whether it is reading or blocked sending an event
\* that nobody receives, the goroutine is not stuck: until the events
\* channel is closed some step of the call can still be taken.
C5_CancelUnblocksProducer ==
    (ctxCancelled /\ fpc \in {"read", "send", "sendLast"}) => ENABLED StreamNext

(***************************************************************************)
(* Further properties of the transport (checked under SpecReq).            *)
(***************************************************************************)
\* The error the last attempt performed produced: its transport error, the
\* error of reading its response, or the APIError built from its response.
ErrorOfLastAttempt ==
    IF lastOutcome.kind = "transport" THEN lastOutcome.err
    ELSE IF lastOutcome.readErr # NoErr THEN lastOutcome.readErr
    ELSE [kind |-> "api", status |-> lastOutcome.status, body |-> lastOutcome.body]

\* C11: when doRequest returns an error after one or more retries, the
\* error is the one the last attempt performed produced, and that attempt
\* is the last request sent.
C11_LastAttemptErrorSurfaces ==
    (rqpc = "done" /\ ret.err # NoErr /\ attempt >= 1)
        => /\ lastOutcome.kind \in {"transport", "response"}
           /\ sent = attempt + 1
           /\ Len(slept) = attempt
           /\ ret.err = ErrorOfLastAttempt

\* After MaxRetriesBound retries the last attempt failed in transport with
\* e2, and e2 is returned.
C11_Witness ==
    /\ rqpc = "done"
    /\ attempt = MaxRetriesBound
    /\ sent = MaxRetriesBound + 1
    /\ lastOutcome = [kind |-> "transport", err |-> [kind |-> "transport", id |-> "e2"]]
    /\ ret.err = [kind |-> "transport", id |-> "e2"]

(***************************************************************************)
(* Properties of startStream (checked under SpecStart).                    *)
(***************************************************************************)
\* The request of the call could not be built: the method or the URL was
\* rejected.
StartStreamUnbuilt == ssErr.kind = "newrequest"

\* The statement of C12 as written: every call that returned or started a
\* goroutine sent exactly one request.
C12_AsStated ==
    /\ ssSent <= 1
    /\ fpc # "idle" => ssSent = 1

\* C12: a call of startStream sends at most one HTTP request, and exactly
\* one whenever the request could be built, whether the call ends in a
\* transport error, a non-2xx status or a 2xx status and whatever
\* Retry.MaxRetries and Retry.RetryOnNonIdempotent are; a request that cannot
\* be built (invalid method or URL) is returned as an error with nothing
\* sent; on a non-2xx status the call returns an APIError carrying that
\* status; a call that failed starts no goroutine: no body is read, no event
\* is framed, and no step of a framer can be taken.
C12_StartStreamSendsAtMostOnce ==
    /\ ssSent <= 1
    /\ (fpc # "idle" /\ ~StartStreamUnbuilt) => ssSent = 1
    /\ StartStreamUnbuilt
          => /\ fpc = "failed"
             /\ ssSent = 0
             /\ ~RequestBuilds(ssErr.method, ssErr.url)
    /\ (fpc # "idle" /\ ~ValidMethod(method)) => StartStreamUnbuilt
    /\ fpc = "failed"
          => /\ ssErr # NoErr
             /\ body = <<>> /\ framed = <<>> /\ eventsClosed = 0
             /\ ~ENABLED (FramerReadLine \/ FramerReadEOF \/ FramerReadError \/ DirectRecv)
    /\ ssErr.kind = "api" => (fpc = "failed" /\ ssSent = 1 /\ ssErr.status \notin 200 .. 299)
    /\ fpc \in {"read", "send", "sendLast", "closed"} => ssErr = NoErr

\* A client configured to retry, non-idempotent methods included, met a 503
\* on its one request and returned the APIError.
C12_Witness ==
    /\ maxRetries = MaxRetriesBound
    /\ retryOnNonIdempotent
    /\ fpc = "failed"
    /\ ssSent = 1
    /\ ssErr = [kind |-> "api", status |-> 503, body |-> "b1"]

(***************************************************************************)
(* Properties of the channels of StreamEvents and Stream (checked under    *)
(* SpecStream).                                                            *)
(***************************************************************************)
\* C13: the error channel of StreamEvents is closed only after its event
\* channel, and holds an error only once its event channel is closed; the
\* same for the error channel and the delta channel of Stream.
C13_ErrorChannelAfterEvents ==
    /\ errChClosed => outClosed
    /\ errCh # <<>> => outClosed
    /\ outErrClosed => deltasClosed
    /\ outErr # <<>> => deltasClosed

\* C14: each error channel holds at most one error, within its capacity of
\* one, so the send never blocks; it is closed when its goroutine has
\* finished, and already when the event (delta) channel is closed, so that
\* whoever drains the events to the close and then receives once from the
\* error channel gets a result at once: the stream's error, or the zero
\* value of the closed channel when there is none.
C14_ErrorChannelAlwaysAnswers ==
    /\ Len(errCh) <= 1 /\ Len(outErr) <= 1
    /\ errCh # <<>> => (sepc \notin {"idle", "recv", "send"} /\ errCh = <<streamErr>>)
    /\ outErr # <<>> => (stpc \in {"deferCloseOutErr", "deferCloseOut", "done"}
                          /\ outErr = <<streamErr>>)
    /\ sepc = "done" => errChClosed
    /\ stpc = "done" => outErrClosed
    /\ outClosed => errChClosed
    /\ deltasClosed => outErrClosed
    /\ stpc = "recvErr" => ENABLED STRecvErr
    /\ cpc = "recvErr" => ENABLED CallerRecvErr
    /\ cpc = "done" => gotErr = streamErr

\* The caller drained two deltas to the close of the channel and then
\* received the read error that ended the stream.
C14_Witness ==
    /\ cpc = "done"
    /\ Len(got) = 2
    /\ streamErr = ErrRead
    /\ gotErr = ErrRead
    /\ outErr = <<>>
    /\ errChClosed /\ outErrClosed

(***************************************************************************)
(* Further properties of the SSE framer (checked under SpecGemini).        *)
(***************************************************************************)
\* The event of the last frame of the body.
LastWrittenFrame == WrittenFrames(body)[Len(WrittenFrames(body))]
EventOfLastWrittenFrame ==
    [Event |-> NameOf(LastWrittenFrame), Data |-> DataOf(LastWrittenFrame),
     Raw |-> DataOf(LastWrittenFrame)]
\* The body ends in a frame that has data lines and no blank line after
\* them, and no sentinel comes before that frame.
EndsInUnterminatedData ==
    /\ WrittenFrames(body) # <<>>
    /\ ~LastWrittenFrame.terminated
    /\ HasData(LastWrittenFrame)
    /\ \A i \in 1 .. Len(WrittenFrames(body)) - 1 : ~IsDoneFrame(WrittenFrames(body)[i])

\* C15: when the framer reads EOF while data lines are buffered with no
\* blank line after them, the stream ends with stream.Err nil and the event
\* of those lines is the last one delivered, before the channel is closed;
\* when those lines are the sentinel no event is delivered for them.
C15_EOFFlushesBufferedEvent ==
    /\ fpc = "sendLast" => (eventsClosed = 0 /\ streamErr = NoErr /\ ending = "eof")
    /\ (fpc = "closed" /\ streamErr = NoErr /\ ending = "eof" /\ EndsInUnterminatedData)
          => IF IsDoneFrame(LastWrittenFrame)
                THEN /\ sentinelSeen
                     /\ Len(framed) = Len(SelectSeq(WrittenFrames(body), HasData)) - 1
                ELSE /\ framed # <<>>
                     /\ framed[Len(framed)] = EventOfLastWrittenFrame
                     /\ Len(framed) = Len(SelectSeq(WrittenFrames(body), HasData))

\* After one whole frame the body ended in an event line and a data line;
\* the second event, named by that event line, was delivered at EOF.
C15_Witness ==
    /\ fpc = "closed"
    /\ eventsClosed = 1
    /\ streamErr = NoErr
    /\ ending = "eof"
    /\ body = ChunkFrame \o ChunkEventLine \o ChunkDataLine
    /\ Len(framed) = 2
    /\ framed[2] = StreamEvent(<<"n">>, <<"{J3}">>)

\* C16: when a read of the body fails with an error other than EOF,
\* stream.Err is that error and the events channel is closed; the data
\* buffered so far is not emitted (the events delivered are events of
\* blank-line-terminated frames only), and no event is delivered after the
\* error.
C16_ReadErrorClosesWithoutFlush ==
    /\ [](streamErr # NoErr
            => /\ fpc = "closed" /\ eventsClosed = 1
               /\ streamErr \in {ErrRead, ErrCancelled, ErrClosedBody}
               /\ streamErr = ErrCancelled => ctxCancelled
               /\ streamErr = ErrRead => (ending = "err" /\ IndexLF(rest) = 0)
               /\ IsPrefixOf(framed, EventsOfFrames(SelectSeq(DataFramesBeforeDone(body),
                                                               IsTerminated)))
               /\ (~ctxCancelled /\ ~sentinelSeen)
                     => framed = EventsOfFrames(SelectSeq(DataFramesBeforeDone(body),
                                                          IsTerminated)))
    /\ [][streamErr # NoErr => (framed' = framed /\ streamErr' = streamErr)]_vars

\* The connection broke after one whole frame and a data line: one event
\* was delivered and the data line is still in the buffer.
C16_Witness ==
    /\ fpc = "closed"
    /\ streamErr = ErrRead
    /\ body = ChunkFrame \o ChunkDataLine
    /\ framed = <<StreamEvent(<<>>, <<"{J2}">>)>>
    /\ dataBuf # <<>>
    /\ gret.err = ErrRead

(***************************************************************************)
(* C17.  Thinking budget and MaxTokens of a Messages body.                 *)
(***************************************************************************)
\* The effective thinking budget of the request: the explicit BudgetTokens,
\* otherwise the budget its effort maps to.
EffectiveBudget ==
    IF ~nreq.Reasoning.set THEN 0
    ELSE IF nreq.Reasoning.BudgetTokens # 0 THEN nreq.Reasoning.BudgetTokens
    ELSE mapEffortToBudget(nreq.Reasoning.Effort)

MessagesBodyReturned ==
    npc = "done" /\ nres.fn = "ToMessagesRequest" /\ nres.err = NoErr

\* C17: whenever ToMessagesRequest translated a request whose effective
\* thinking budget B is positive, the MaxTokens of the body is strictly
\* greater than B, whether the caller left MaxTokens unset or supplied it.
C17_MaxTokensAboveBudget ==
    (MessagesBodyReturned /\ EffectiveBudget > 0)
        => (nres.body.MaxTokens.set /\ nres.body.MaxTokens.val > EffectiveBudget)

(***************************************************************************)
(* C18.  System messages of a request and the system slot of the body.     *)
(***************************************************************************)
IsSystemMessage(m) == m.Role = <<"system">>

HasSystemMessage == \E i \in 1 .. Len(nreq.Messages) : IsSystemMessage(nreq.Messages[i])

\* The text a joined with the contents of the system messages of ms from
\* message i on, a blank line between two texts.
RECURSIVE JoinedWithSystemMessages(_, _, _)
JoinedWithSystemMessages(a, ms, i) ==
    IF i > Len(ms) THEN a
    ELSE IF IsSystemMessage(ms[i])
        THEN JoinedWithSystemMessages(
                 IF a = <<>> THEN ms[i].Content ELSE a \o <<LF, LF>> \o ms[i].Content,
                 ms, i + 1)
        ELSE JoinedWithSystemMessages(a, ms, i + 1)

\* The system slot of a body: instructions, system, systemInstruction, or
\* the leading system message of a Chat Completions body.
SystemSlot(b) ==
    CASE b.type = "ResponsesRequest" -> b.Instructions
      [] b.type = "MessagesRequest" -> b.System
      [] b.type = "GeminiRequest" ->
             IF b.SystemInstruction.set THEN b.SystemInstruction.Text ELSE <<>>
      [] b.type = "ChatCompletionsRequest" ->
             IF Len(b.Messages) > 0 /\ b.Messages[1].Role = <<"system">>
                 THEN b.Messages[1].Content
                 ELSE <<>>

\* The roles of the translated message list, the system slot set apart.
TranslatedRoles(b) ==
    CASE b.type = "ResponsesRequest" -> [i \in 1 .. Len(b.Input) |-> b.Input[i].Role]
      [] b.type = "MessagesRequest" -> [i \in 1 .. Len(b.Messages) |-> b.Messages[i].Role]
      [] b.type = "GeminiRequest" -> [i \in 1 .. Len(b.Contents) |-> b.Contents[i].Role]
      [] b.type = "ChatCompletionsRequest" ->
             LET rs == [i \in 1 .. Len(b.Messages) |-> b.Messages[i].Role]
             IN IF Len(rs) > 0 /\ rs[1] = <<"system">> THEN Tail(rs) ELSE rs

\* C18: whenever one of the four translators translated a request whose
\* Messages hold a message of role system, the system slot of the body is
\* the request's System joined by a blank line with the content of those
\* messages, and the translated message list has no entry for them.
C18_SystemMessagesLifted ==
    (npc = "done" /\ nres.err = NoErr /\ HasSystemMessage)
        => /\ SystemSlot(nres.body) = JoinedWithSystemMessages(nreq.System, nreq.Messages, 1)
           /\ \A i \in 1 .. Len(TranslatedRoles(nres.body)) :
                  TranslatedRoles(nres.body)[i] # <<"system">>

(***************************************************************************)
(* C19.  Routing and the order of stripping and lowercasing.               *)
(***************************************************************************)
\* The dialect of an id that is already stripped and in lower case.
DialectOfPrefix(m) ==
    IF HasPrefix(m, <<"gpt-">>) THEN EndpointResponses
    ELSE IF HasPrefix(m, <<"claude-">>) THEN EndpointMessages
    ELSE IF HasPrefix(m, <<"gemini-">>) THEN EndpointModels
    ELSE EndpointChatCompletions

\* Stripping first and lowercasing after, and the reverse, give one dialect.
StripAndLowerCommute ==
    DialectOfPrefix(ToLower(stripOpencodePrefix(nreq.Model)))
        = DialectOfPrefix(normalizeModelID(nreq.Model))

StreamEventsRouted ==
    npc = "done" /\ nres.fn = "StreamEvents" /\ nres.err = NoErr

\* StreamEvents, without an endpoint override, sends the request to the
\* dialect routeForModel gives for the id the caller passed.
StreamEventsAgreesWithRouteForModel ==
    (StreamEventsRouted /\ nreq.Endpoint = EndpointAuto)
        => nres.endpoint = routeForModel(nreq.Model)

\* C19: for every model id the dialect is the same whether the opencode/
\* prefix is stripped before or after lowercasing, and StreamEvents, which
\* strips first, and routeForModel, which lowercases first, agree on the id.
C19_RoutingIndependentOfOrder ==
    StripAndLowerCommute /\ StreamEventsAgreesWithRouteForModel

(***************************************************************************)
(* C20.  The routing table and the endpoint override.                      *)
(***************************************************************************)
StreamSuffix == <<":streamGenerateContent?alt=sse">>

\* The path of a dialect; model is the id written into a Models path.
PathOfDialect(ep, model) ==
    CASE ep = EndpointResponses -> <<"/responses">>
      [] ep = EndpointMessages -> <<"/messages">>
      [] ep = EndpointChatCompletions -> <<"/chat/completions">>
      [] ep = EndpointModels -> <<"/models/">> \o model \o StreamSuffix
      [] OTHER -> <<>>

\* The body type of a dialect.
BodyTypeOfDialect(ep) ==
    CASE ep = EndpointResponses -> "ResponsesRequest"
      [] ep = EndpointMessages -> "MessagesRequest"
      [] ep = EndpointChatCompletions -> "ChatCompletionsRequest"
      [] ep = EndpointModels -> "GeminiRequest"
      [] OTHER -> "nil"

\* The id written into a Models path for a model field.
ModelOfPath(model) == TrimSpace(stripOpencodePrefix(model))

ResolveReturned == npc = "done" /\ nres.fn = "resolveStreamEndpoint"

\* Without an override the normalized id decides endpoint and path.
RoutedByTable ==
    (ResolveReturned /\ nreq.Endpoint = EndpointAuto)
        => /\ nres.err = NoErr
           /\ nres.endpoint = DialectOfPrefix(normalizeModelID(nreq.Model))
           /\ nres.path = PathOfDialect(nres.endpoint, ModelOfPath(nreq.Model))

\* StreamEvents passes startStream the endpoint and path of the dialect of
\* the request: the dialect of the Endpoint field, or else of the model id
\* normalized once, and the body of that dialect.
StreamEventsSendsDialectBody ==
    StreamEventsRouted
        => LET ep == IF nreq.Endpoint = EndpointAuto
                         THEN DialectOfPrefix(normalizeModelID(nreq.Model))
                         ELSE nreq.Endpoint
           IN /\ nres.endpoint = ep
              /\ nres.path = PathOfDialect(ep, ModelOfPath(nreq.Model))
              /\ nres.body.type = BodyTypeOfDialect(ep)

\* A non-empty Endpoint field decides the dialect and the path.
EndpointFieldDecides ==
    (ResolveReturned /\ nreq.Endpoint # EndpointAuto)
        => /\ nres.err = NoErr
           /\ nres.endpoint = nreq.Endpoint
           /\ nres.path = PathOfDialect(nreq.Endpoint, ModelOfPath(nreq.Model))

\* C20: without an endpoint override a normalized model id starting with
\* gpt- goes to /responses, claude- to /messages, gemini- to
\* /models/<model>:streamGenerateContent?alt=sse and any other id to
\* /chat/completions, each with the body of that dialect; a non-empty
\* Endpoint field decides the dialect and the path whatever the model id.
C20_AsStated ==
    /\ RoutedByTable
    /\ StreamEventsSendsDialectBody
    /\ EndpointFieldDecides

(***************************************************************************)
(* C21.  Authentication headers of the streaming and the blocking path.    *)
(***************************************************************************)
AuthHeaderNames == {"Authorization", "x-api-key", "x-goog-api-key"}

\* The authentication headers among the headers h.
AuthHeadersOf(h) == [n \in DOMAIN h \cap AuthHeaderNames |-> h[n]]

\* C21: for every dialect and every configured auth mode, the request that
\* startStream builds carries the same authentication headers as the
\* request doRequest builds for that dialect.
C21_StreamingAuthAsBlocking ==
    (hpc = "done" /\ hres.fn = "startStream")
        => AuthHeadersOf(hres.headers)
               = AuthHeadersOf(doRequestHeaders(hcall.cfg, hcall.endpoint, FALSE))

(***************************************************************************)
(* C22.  The authentication header applyAuthHeaders selects.               *)
(***************************************************************************)
\* The header name for a mode and a dialect; a mode that is none of the
\* three explicit ones selects by dialect.
SelectedAuthName(mode, ep) ==
    IF mode = "authorization" THEN "Authorization"
    ELSE IF mode = "x-api-key" THEN "x-api-key"
    ELSE IF mode = "x-goog-api-key" THEN "x-goog-api-key"
    ELSE IF ep = "messages" THEN "x-api-key"
    ELSE IF ep = "models" THEN "x-goog-api-key"
    ELSE "Authorization"

\* The value of a header for a key: the key itself, with "Bearer " put in
\* front for Authorization unless the key starts with it in any case.
SelectedAuthValue(name, key) ==
    IF name = "Authorization" /\ LowerSym(key[1]) # "bearer "
        THEN <<"Bearer ">> \o key
        ELSE key

AuthApplied == hpc = "done" /\ hres.fn = "applyAuthHeaders" /\ ~hcall.forceAll

\* C22: with forceAll unset applyAuthHeaders sets exactly one authentication
\* header: in auto mode x-api-key for Messages, x-goog-api-key for Models
\* and Authorization for every other dialect, in an explicit mode the header
\* of that mode for every dialect; the header depends only on the dialect
\* and the mode, and its value only on the API key.
C22_OneAuthHeaderByModeAndDialect ==
    AuthApplied
        => LET name == SelectedAuthName(hcall.cfg.AuthHeader, hcall.endpoint)
           IN /\ DOMAIN hres.headers = {name}
              /\ hres.headers[name] = SelectedAuthValue(name, hcall.cfg.APIKey)

\* applyAuthHeaders, in auto mode and for the Models dialect, set
\* x-goog-api-key and nothing else.
C22_Witness ==
    /\ AuthApplied
    /\ hcall.cfg.AuthHeader = AuthHeaderAuto
    /\ hcall.endpoint = EndpointModels
    /\ DOMAIN hres.headers = {"x-goog-api-key"}
    /\ hres.headers["x-goog-api-key"] = <<"k">>

(***************************************************************************)
(* C23.  Extra keys and base fields of a marshalled body.                  *)
(***************************************************************************)
\* The JSON names of the base fields of a body type.
BaseFieldNames(type) ==
    IF type = "MessagesRequest"
        THEN {"model", "messages", "system", "tools", "tool_choice", "thinking",
              "temperature", "max_tokens", "stream"}
        ELSE {"model", "input", "instructions", "reasoning", "tools", "tool_choice",
              "temperature", "max_output_tokens", "stream"}

\* The base map MarshalJSON built for the body under call.
BaseOfCall ==
    IF mcall.type = "MessagesRequest" THEN MessagesBase(mcall) ELSE ResponsesBase(mcall)

\* C23: in every marshalled body no key of Extra replaces or changes a base
\* field of the same name: a member named like a base field has the value
\* the body's own field gives it, or is absent when the field is unset, and
\* Extra contributes only keys that are not base fields.
C23_BaseFieldsWinOverExtra ==
    mpc = "done"
        => \A k \in BaseFieldNames(mcall.type) :
               IF k \in DOMAIN BaseOfCall
                   THEN k \in DOMAIN mres /\ mres[k] = BaseOfCall[k]
                   ELSE k \notin DOMAIN mres

(***************************************************************************)
(* C24.  A tool choice of type tool needs a name.                          *)
(***************************************************************************)
Translators ==
    {"ToResponsesRequest", "ToChatCompletionsRequest", "ToMessagesRequest",
     "ToGeminiRequest"}

TranslatorReturned == npc = "done" /\ nres.fn \in Translators

ToolChosen == nreq.ToolChoice.set /\ nreq.ToolChoice.Type = "tool"

\* The name is empty or white space only.
BlankName == \A i \in 1 .. Len(nreq.ToolChoice.Name) : nreq.ToolChoice.Name[i] = " "

\* The body type each translator returns and the tool choice of a body.
BodyTypeOfTranslator(fn) ==
    CASE fn = "ToResponsesRequest" -> "ResponsesRequest"
      [] fn = "ToChatCompletionsRequest" -> "ChatCompletionsRequest"
      [] fn = "ToMessagesRequest" -> "MessagesRequest"
      [] fn = "ToGeminiRequest" -> "GeminiRequest"

ToolChoiceOfBody(b) == IF b.type = "GeminiRequest" THEN b.ToolConfig ELSE b.ToolChoice

\* C24: each of the four translators fails and returns no body when the
\* tool choice has type tool and an empty or white-space name, and succeeds,
\* with a body that names the tool, when the name is not blank; StreamEvents
\* returns that failure before it calls startStream, so nothing is sent.
C24_ToolChoiceNeedsName ==
    /\ (TranslatorReturned /\ ToolChosen /\ BlankName)
           => nres.err = [kind |-> "zen: tool choice name is required"]
              /\ nres.body = NilBody
    /\ (TranslatorReturned /\ ToolChosen /\ ~BlankName)
           => /\ nres.err = NoErr
              /\ nres.body.type = BodyTypeOfTranslator(nres.fn)
              /\ ToolChoiceOfBody(nres.body).set
              /\ ToolChoiceOfBody(nres.body).name = nreq.ToolChoice.Name
    /\ (npc = "done" /\ nres.fn = "StreamEvents" /\ ToolChosen /\ BlankName)
           => /\ nres.err = [kind |-> "zen: tool choice name is required"]
              /\ nres.body = NilBody
              /\ nres.path = <<>>
              /\ ssSent = 0

\* ToMessagesRequest failed on a tool choice whose name is white space.
C24_Witness ==
    /\ TranslatorReturned
    /\ nres.fn = "ToMessagesRequest"
    /\ nreq.ToolChoice = NormalizedToolChoice(ToolChoiceTool, <<" ">>)
    /\ nres.err = ErrToolChoiceName
    /\ nres.body = NilBody

(***************************************************************************)
(* C25: the name of a Gemini functionResponse.                             *)
(***************************************************************************)

GeminiReturned == npc = "done" /\ nres.fn = "ToGeminiRequest"

IsToolMessage(m) == ToLower(TrimSpace(m.Role)) = <<"tool">>
IsAssistantMessage(m) == ToLower(TrimSpace(m.Role)) = <<"assistant">>

\* The names of the tool calls with the id of message i in the assistant
\* messages before message i.
EarlierNames(msgs, i) ==
    {msgs[j].ToolCalls[c].Name :
         <<j, c>> \in {jc \in (1 .. i - 1) \X (1 .. MaxHistory) :
                          /\ IsAssistantMessage(msgs[jc[1]])
                          /\ jc[2] <= Len(msgs[jc[1]].ToolCalls)
                          /\ msgs[jc[1]].ToolCalls[jc[2]].ID = msgs[i].ToolCallID
                          /\ msgs[jc[1]].ToolCalls[jc[2]].ID # ""
                          /\ msgs[jc[1]].ToolCalls[jc[2]].Name # ""}}

\* The names the tool result of message i may carry: its explicit
\* FunctionName, otherwise the name of an earlier tool call with its id.
NamesFor(msgs, i) ==
    IF msgs[i].FunctionName # "" THEN {msgs[i].FunctionName} ELSE EarlierNames(msgs, i)

Unnamed(msgs) == {i \in 1 .. Len(msgs) : IsToolMessage(msgs[i]) /\ NamesFor(msgs, i) = {}}

\* C25: ToGeminiRequest names the functionResponse of a tool-role message
\* with its explicit FunctionName when that is set, otherwise with the name
\* of the tool call of the same id in an assistant message earlier in
\* Messages; when a tool-role message gets no name from either, the
\* translation fails with the missing-function-name error and no body.
C25_FunctionResponseNamedFromEarlierCall ==
    GeminiReturned =>
        IF Unnamed(nreq.Messages) # {}
            THEN nres.err = ErrMissingFunctionName /\ nres.body = NilBody
            ELSE /\ nres.err = NoErr
                 /\ \A i \in 1 .. Len(nreq.Messages) :
                        IsToolMessage(nreq.Messages[i]) =>
                            /\ nres.body.Contents[i].FunctionResponse.set
                            /\ nres.body.Contents[i].FunctionResponse.Name
                                   \in NamesFor(nreq.Messages, i)

(***************************************************************************)
(* C26: the blocking Gemini call on a stream without content.              *)
(***************************************************************************)

\* startStream succeeded, the events channel was closed and stream.Err is
\* nil.
GeminiStreamEndedClean == gpc = "done" /\ ssErr = NoErr /\ streamErr = NoErr

\* C26: when the Gemini stream ends without error and no event with
\* non-empty Data was delivered, whether no event at all or only events with
\* empty Data, CreateModelContent returns the empty-response error and a nil
\* body.
C26_EmptyStreamFails ==
    (GeminiStreamEndedClean /\ NonEmptyData(framed) = <<>>)
        => /\ gret.err = ErrEmptyResponse
           /\ gret.body = NilRaw

\* The stream delivered events, all with empty Data, and ended without
\* error; the call returned the empty-response error.
C26_Witness ==
    /\ GeminiStreamEndedClean
    /\ Len(framed) >= 1
    /\ NonEmptyData(framed) = <<>>
    /\ gret.err = ErrEmptyResponse

(***************************************************************************)
(* C27, C28, C29: the tool-call accumulator (checked under SpecAcc).       *)
(***************************************************************************)

\* The delta of the step, when the step is a call of Apply.
Applying == Len(applied') = Len(applied) + 1
AppliedDelta == applied'[Len(applied')]

\* C27: once the id, the name or the thought signature of an index is not
\* empty, no later tool_call_begin or tool_call_done delta for that index
\* changes it, whatever values the delta carries.
C27_IdentityNeverOverwritten ==
    [][\A i \in DOMAIN calls :
           /\ i \in DOMAIN calls'
           /\ calls[i].id # "" => calls'[i].id = calls[i].id
           /\ calls[i].name # "" => calls'[i].name = calls[i].name
           /\ calls[i].sig # "" => calls'[i].sig = calls[i].sig]_vars

\* Index 0 got id1, f and s from a begin delta; a done delta and a begin
\* delta that carry id2, g and s2 followed, and the index still has id1, f
\* and s.
C27_Witness ==
    /\ Len(applied) = 3
    /\ \A k \in 1 .. 3 : applied[k].ToolCallIndex = 0
    /\ applied[1].Type = DeltaToolCallBegin /\ applied[1].ToolCallID = "id1"
    /\ applied[2].Type = DeltaToolCallDone /\ applied[2].ToolCallID = "id2"
    /\ applied[2].ToolCallSignature = "s2"
    /\ applied[3].Type = DeltaToolCallBegin /\ applied[3].ToolCallName = "g"
    /\ calls[0].id = "id1" /\ calls[0].name = "f" /\ calls[0].sig = "s"

\* The indices of the tool-call deltas of ds, each once, in the order of
\* their first delta.
RECURSIVE FirstSeen(_)
FirstSeen(ds) ==
    IF ds = <<>> THEN <<>>
    ELSE LET before == FirstSeen(SubSeq(ds, 1, Len(ds) - 1))
             d == ds[Len(ds)]
         IN IF d.Type \in ToolDeltaTypes
                /\ \A k \in 1 .. Len(before) : before[k] # d.ToolCallIndex
                THEN Append(before, d.ToolCallIndex)
                ELSE before

\* The begin and done deltas of ds for index i that carry an id.
IdsOf(ds, i) ==
    SelectSeq(ds, LAMBDA d : /\ d.Type \in {DeltaToolCallBegin, DeltaToolCallDone}
                             /\ d.ToolCallIndex = i
                             /\ d.ToolCallID # "")

\* The ID of the record of index i: the first id a begin or done delta
\* carried, or the synthetic id of the index.
RecordID(ds, i) ==
    IF IdsOf(ds, i) = <<>> THEN "tool-" \o Itoa(i) ELSE IdsOf(ds, i)[1].ToolCallID

\* C28: after any sequence of Apply calls CompleteCalls returns one record
\* for each distinct ToolCallIndex that received a tool-call delta (begin,
\* arguments delta or done), in the order in which the indices were first
\* seen, also for an index that never received a tool_call_done.
C28_OneRecordPerIndexInFirstSeenOrder ==
    apc = "done" =>
        /\ order = FirstSeen(applied)
        /\ Len(completed) = Len(FirstSeen(applied))
        /\ \A k \in 1 .. Len(completed) :
               completed[k].ID = RecordID(applied, FirstSeen(applied)[k])

\* Index 1 was seen before index 0, neither received a done delta nor an
\* id; the records are those of index 1 and of index 0, in that order.
C28_Witness ==
    /\ apc = "done"
    /\ Len(applied) = 3
    /\ applied[1].Type = DeltaToolCallArgumentsDelta /\ applied[1].ToolCallIndex = 1
    /\ applied[2].Type = DeltaToolCallArgumentsDelta /\ applied[2].ToolCallIndex = 0
    /\ applied[3].Type = DeltaToolCallArgumentsDelta /\ applied[3].ToolCallIndex = 1
    /\ Len(completed) = 2
    /\ completed[1].ID = "tool-1"
    /\ completed[2].ID = "tool-0"

NonToolDeltaTypes == {DeltaText, DeltaReasoning, DeltaDone, DeltaUnknown}

\* C29: Apply returns false for a delta that is not a tool-call delta (text,
\* reasoning, done, unknown) and leaves the state of the accumulator, the
\* tracked indices and the result of CompleteCalls as they were.
C29_NonToolDeltaIgnored ==
    [][(Applying /\ AppliedDelta.Type \in NonToolDeltaTypes)
           => /\ applyRet' = Append(applyRet, FALSE)
              /\ calls' = calls
              /\ order' = order
              /\ CompleteCalls' = CompleteCalls]_vars

\* A reasoning delta that names index 1 was applied after a begin delta for
\* index 0 and an unknown delta; Apply returned false for both and only
\* index 0 is tracked.
C29_Witness ==
    /\ Len(applied) = 3
    /\ applied[1].Type = DeltaToolCallBegin /\ applied[1].ToolCallIndex = 0
    /\ applied[2].Type = DeltaUnknown
    /\ applied[3].Type = DeltaReasoning /\ applied[3].ToolCallIndex = 1
    /\ applyRet = <<TRUE, FALSE, FALSE>>
    /\ order = <<0>>
    /\ DOMAIN calls = {0}

(***************************************************************************)
(* C30: the number of requests and the sleeps of doRequest (checked under  *)
(* SpecReqFair).                                                           *)
(***************************************************************************)

\* Lines 28-30: the method is not idempotent and the client has not opted in.
RetriesForced == NonIdempotentMethod /\ ~retryOnNonIdempotent

\* The most requests a call may send.
RequestBudget ==
    IF RetriesForced THEN 1 ELSE IF maxRetries < 0 THEN 0 ELSE maxRetries + 1

\* The sleeps so far are Backoff(0), Backoff(1), ... in that order, one
\* after each attempt but the last.
SleepsBetweenAttempts ==
    /\ slept = [k \in 1 .. Len(slept) |-> k - 1]
    /\ rqpc = "loop" => Len(slept) = sent
    /\ rqpc = "done" => \/ sent = 0 /\ slept = <<>>
                        \/ Len(slept) = sent - 1

\* C30 as stated: doRequest terminates after at most MaxRetries+1 requests,
\* exactly 1 when the retries are forced to 0, and sleeps Backoff(attempt)
\* only between two attempts, for attempt 0, 1, 2, ... in order, never after
\* the last attempt.
C30_AsStated ==
    /\ <>(rqpc = "done")
    /\ [](/\ sent <= RequestBudget
          /\ SleepsBetweenAttempts
          /\ (rqpc = "done" /\ RetriesForced) => sent = 1)

\* C30: doRequest terminates after at most MaxRetries+1 requests, at most 1
\* when the retries are forced to 0 and then exactly 1 unless the request
\* could not be built, in which case none is sent; it sleeps Backoff(attempt)
\* only between two attempts, for attempt 0, 1, 2, ... in order, never after
\* the last attempt.
C30_TerminatesWithinBudget ==
    /\ <>(rqpc = "done")
    /\ [](/\ sent <= RequestBudget
          /\ SleepsBetweenAttempts
          /\ (rqpc = "done" /\ RetriesForced) =>
                 sent = IF ValidMethod(method) THEN 1 ELSE 0)

\* A GET with MaxRetries at its largest used every attempt: it slept
\* Backoff(0) .. Backoff(MaxRetries - 1) and returned after the last
\* attempt's transport error.
C30_Witness ==
    /\ rqpc = "done"
    /\ method = "GET"
    /\ maxRetries = MaxRetriesBound
    /\ sent = MaxRetriesBound + 1
    /\ slept = [k \in 1 .. MaxRetriesBound |-> k - 1]
    /\ lastOutcome.kind = "transport"

(***************************************************************************)
(* C31: the default max_tokens of ToMessagesRequest (checked under         *)
(* SpecBudget).                                                            *)
(***************************************************************************)

MaxOf(a, b) == IF a >= b THEN a ELSE b

\* C31: when the caller leaves MaxTokens unset, ToMessagesRequest sets
\* max_tokens to max(1024, 2 x thinkingBudget), whatever the thinking budget
\* is, and to 1024 when there is no thinking budget.
C31_DefaultMaxTokensIsMax ==
    (MessagesBodyReturned /\ ~nreq.MaxTokens.set)
        => /\ nres.body.MaxTokens.set
           /\ nres.body.MaxTokens.val = MaxOf(1024, 2 * EffectiveBudget)

(***************************************************************************)
(* C32, C33: the deltas of one Gemini or ChatCompletions event (checked    *)
(* under SpecParse).                                                       *)
(***************************************************************************)

GeminiParsed == ppc = "done" /\ pin.Endpoint = EndpointModels /\ pin.ok
ChatParsed == ppc = "done" /\ pin.Endpoint = EndpointChatCompletions /\ pin.ok

\* The parts of candidates[0] of the Gemini chunk parsed, and the 0-based
\* indices of those with a functionCall.
PartsParsed ==
    IF "candidates" \in DOMAIN pin.json /\ Len(pin.json.candidates) > 0
        THEN pin.json.candidates[1].content.parts
        ELSE <<>>
CallParts == {i \in 0 .. Len(PartsParsed) - 1 : "functionCall" \in DOMAIN PartsParsed[i + 1]}

ArgsOfPart(i) ==
    IF "args" \in DOMAIN PartsParsed[i + 1].functionCall
        THEN PartsParsed[i + 1].functionCall.args
        ELSE ""

\* The tool-call deltas of the output, and those of index i.
ToolDeltasOut == SelectSeq(pout, LAMBDA d : d.Type \in ToolDeltaTypes)
ToolDeltasOfIndex(i) == SelectSeq(ToolDeltasOut, LAMBDA d : d.ToolCallIndex = i)

\* Position in the output of the first delta of index i.
FirstOfIndex(i) ==
    CHOOSE k \in 1 .. Len(pout) :
        /\ pout[k].Type \in ToolDeltaTypes /\ pout[k].ToolCallIndex = i
        /\ \A j \in 1 .. k - 1 :
               ~(pout[j].Type \in ToolDeltaTypes /\ pout[j].ToolCallIndex = i)

\* C32: for a Gemini event, each part i of candidates[0] that has a
\* functionCall yields a tool_call_begin, a tool_call_arguments_delta and a
\* tool_call_done delta in this order, all with ToolCallIndex i and one id,
\* with ArgumentsDelta and ArgumentsFull equal to the args of the call; the
\* deltas of different parts come in the order of the parts.
C32_FunctionCallYieldsThreeDeltas ==
    GeminiParsed =>
        /\ \A i \in CallParts :
               LET ds == ToolDeltasOfIndex(i)
               IN /\ Len(ds) = 3
                  /\ ds[1].Type = DeltaToolCallBegin
                  /\ ds[2].Type = DeltaToolCallArgumentsDelta
                  /\ ds[3].Type = DeltaToolCallDone
                  /\ ds[1].ToolCallID = ds[2].ToolCallID
                  /\ ds[2].ToolCallID = ds[3].ToolCallID
                  /\ ds[2].ArgumentsDelta = ArgsOfPart(i)
                  /\ ds[3].ArgumentsFull = ArgsOfPart(i)
        /\ \A i, j \in CallParts : i < j => FirstOfIndex(i) + 2 < FirstOfIndex(j)

\* The finish reason of the first choice or candidate of the chunk parsed,
\* "" when there is none.
FinishReasonParsed ==
    LET key == IF pin.Endpoint = EndpointModels THEN "candidates" ELSE "choices"
        field == IF pin.Endpoint = EndpointModels THEN "finishReason" ELSE "finish_reason"
    IN IF key \in DOMAIN pin.json /\ Len(pin.json[key]) > 0
           /\ field \in DOMAIN pin.json[key][1]
           THEN pin.json[key][1][field]
           ELSE ""

DoneDeltasOut == SelectSeq(pout, LAMBDA d : d.Type = DeltaDone)

\* C33: a ChatCompletions or Gemini event that carries a finish reason
\* yields exactly one done delta, and it is the last delta of the event,
\* after every reasoning, text and tool-call delta; a Gemini finishReason of
\* FINISH_REASON_UNSPECIFIED yields no done delta.
C33_DoneDeltaIsLast ==
    /\ (/\ ChatParsed \/ GeminiParsed
        /\ FinishReasonParsed # ""
        /\ ~(GeminiParsed /\ FinishReasonParsed = "FINISH_REASON_UNSPECIFIED"))
           => /\ Len(DoneDeltasOut) = 1
              /\ pout[Len(pout)].Type = DeltaDone
    /\ (GeminiParsed /\ FinishReasonParsed = "FINISH_REASON_UNSPECIFIED")
           => DoneDeltasOut = <<>>

\* A Gemini event with a thought part, a function call and finishReason STOP
\* was parsed: a reasoning delta, three tool-call deltas, then the done delta.
C33_Witness ==
    /\ GeminiParsed
    /\ FinishReasonParsed = "STOP"
    /\ Len(pout) = 5
    /\ pout[1].Type = DeltaReasoning
    /\ pout[2].Type = DeltaToolCallBegin
    /\ pout[4].Type = DeltaToolCallDone
    /\ pout[5].Type = DeltaDone

(***************************************************************************)
(* C34: what a flush of the framer emits and leaves (checked under         *)
(* SpecGemini).                                                            *)
(***************************************************************************)

\* The complete lines of s, without their line ends; the bytes after the
\* last line feed are no line.
RECURSIVE LinesOf(_)
LinesOf(s) ==
    IF IndexLF(s) = 0 THEN <<>>
    ELSE <<TrimRightCRLF(SubSeq(s, 1, IndexLF(s)))>>
             \o LinesOf(SubSeq(s, IndexLF(s) + 1, Len(s)))

\* The lines of ls after its last blank line.
RECURSIVE SinceBlank(_)
SinceBlank(ls) ==
    IF ls = <<>> \/ ls[Len(ls)] = <<>> THEN <<>>
    ELSE Append(SinceBlank(SubSeq(ls, 1, Len(ls) - 1)), ls[Len(ls)])

\* The name of the last event line of ls, and the data of its data lines.
RECURSIVE NameIn(_)
NameIn(ls) ==
    IF ls = <<>> THEN <<>>
    ELSE IF HasPrefix(ls[Len(ls)], EventPrefix)
        THEN TrimSpace(TrimPrefix(ls[Len(ls)], EventPrefix))
        ELSE NameIn(SubSeq(ls, 1, Len(ls) - 1))

RECURSIVE DataIn(_)
DataIn(ls) ==
    IF ls = <<>> THEN <<>>
    ELSE IF HasPrefix(ls[1], DataPrefix)
        THEN TrimSpace(TrimPrefix(ls[1], DataPrefix)) \o <<LF>> \o DataIn(Tail(ls))
        ELSE DataIn(Tail(ls))

\* The complete lines read so far.
LinesRead == LinesOf(SubSeq(body, 1, Len(body) - Len(rest)))

\* The last step of the goroutine that touched the event name or the data
\* buffer was a flush: the last line read is a blank line, or the end of the
\* body was met.
FlushedAtBlankLine ==
    /\ fpc \in {"read", "send", "closed"}
    /\ Len(LinesRead) > 0
    /\ LinesRead[Len(LinesRead)] = <<>>
    /\ Len(rest) < Len(body) /\ body[Len(body) - Len(rest)] = LF
FlushedAtEOF ==
    /\ fpc \in {"sendLast", "closed"}
    /\ rest = <<>>
    /\ ending = "eof"
    /\ streamErr = NoErr

\* The lines read since the previous blank line when the event being sent
\* was flushed.
FlushedLines ==
    IF fpc = "send" THEN SinceBlank(SubSeq(LinesRead, 1, Len(LinesRead) - 1))
                    ELSE SinceBlank(LinesRead)

\* C34: after every flush, whether it emits an event, finds an empty buffer
\* or finds the sentinel, the event name and the data buffer are both empty,
\* and an emitted event carries the event name and the data lines read since
\* the previous blank line and nothing of an earlier frame.
C34_FlushResetsNameAndData ==
    /\ (FlushedAtBlankLine \/ FlushedAtEOF) => (eventName = <<>> /\ dataBuf = <<>>)
    /\ fpc \in {"send", "sendLast"}
           => fev = StreamEvent(NameIn(FlushedLines), TrimSuffixLF(DataIn(FlushedLines)))

\* An event line was followed by a blank line and then by a frame without
\* an event line: the frame was delivered without a name.
C34_Witness ==
    /\ body = ChunkEventLine \o ChunkBlank \o ChunkFrame
    /\ Len(framed) = 1
    /\ framed[1].Event = <<>>
    /\ framed[1].Data = <<"{J2}">>
    /\ eventName = <<>>
    /\ dataBuf = <<>>

(***************************************************************************)
(* C35: the write and the reads of stream.Err (checked under SpecStream).  *)
(***************************************************************************)

\* The step in which StreamEvents, or CreateModelContent, reads stream.Err.
StreamEventsReadsErr == sepc = "recv" /\ sepc' = "deferClose"
CreateModelContentReadsErr == gpc = "range" /\ gpc' = "done"

\* C35: stream.Err is written at most once, by the framer goroutine while
\* the events channel is still open, and never once the channel is closed; a
\* consumer reads it only after the close of the events channel, when the
\* goroutine has returned, and so gets its final value.
C35_ErrWrittenOnceBeforeClose ==
    [][/\ streamErr' # streamErr
              => /\ streamErr = NoErr
                 /\ fpc = "read"
                 /\ eventsClosed = 0
       /\ eventsClosed > 0 => streamErr' = streamErr
       /\ StreamEventsReadsErr
              => /\ eventsClosed > 0
                 /\ fpc = "closed"
                 /\ errCh' = IF streamErr # NoErr THEN <<streamErr>> ELSE <<>>
       /\ CreateModelContentReadsErr
              => /\ eventsClosed > 0
                 /\ fpc = "closed"
                 /\ streamErr # NoErr => gret'.err = streamErr]_vars

\* The connection failed after one event was delivered: the goroutine wrote
\* the read error and closed the events channel, and StreamEvents, at the
\* end of its loop, put that error into its error channel.
C35_Witness ==
    /\ streamErr = ErrRead
    /\ eventsClosed = 1
    /\ Len(framed) = 1
    /\ sepc = "deferClose"
    /\ errCh = <<ErrRead>>

(***************************************************************************)
(* C36: the error channels of StreamEvents and Stream (SpecStream).        *)
(***************************************************************************)
\* An event is pending: the framer or StreamEvents holds it in a send on an
\* unbuffered channel.
EventPending == fpc \in {"send", "sendLast"} \/ sepc = "send"

\* A delta is pending: an event is, or Stream holds deltas not yet received,
\* or the caller has not received the deltas of every framed event.
DeltaPending ==
    \/ EventPending
    \/ stpc = "send"
    \/ got # DeltasOfEvents(framed)

\* A receive from the channel would block: it is empty and open.
EmptyAndOpen(ch, closed) == ch = <<>> /\ ~closed

\* C36: while an event is pending the error channel of StreamEvents is
\* empty and open, and while a delta is pending the error channel of Stream
\* is empty and open, so that a receive from the error channel blocks until
\* every event (delta) has been handed over.
C36_ErrChannelQuietWhilePending ==
    /\ EventPending => EmptyAndOpen(errCh, errChClosed)
    /\ DeltaPending => EmptyAndOpen(outErr, outErrClosed)

\* The framer has already failed and closed the events channel while
\* StreamEvents still holds an event the stopped caller's side never takes:
\* both error channels are empty and open.
C36_Witness ==
    /\ streamErr = ErrRead
    /\ eventsClosed = 1
    /\ sepc = "send"
    /\ stpc = "send"
    /\ cpc = "stopped"
    /\ EmptyAndOpen(errCh, errChClosed)
    /\ EmptyAndOpen(outErr, outErrClosed)

(***************************************************************************)
(* C37: a failed read of the response body (SpecReq).                      *)
(***************************************************************************)
\* The last attempt got a response whose body could not be read.
BodyReadFailed == GotResponse /\ lastOutcome.readErr # NoErr

\* C37: once the body of a response could not be read, doRequest has
\* returned: the error is the read error itself and no APIError, the payload
\* is nil, the headers are those of the response, and the failed attempt was
\* followed by neither a sleep nor another request, whatever the method,
\* the status and the attempts left.
C37_ReadErrorReturnedAtOnce ==
    BodyReadFailed =>
        /\ rqpc = "done"
        /\ ret = [payload |-> NilBytes, header |-> "resp", err |-> lastOutcome.readErr]
        /\ ret.err \in ReadErrs
        /\ ret.err # newAPIError(lastOutcome.status, lastOutcome.body)
        /\ sent = attempt + 1
        /\ Len(slept) = attempt

\* A GET with retries left, after one retry already made, fails to read the
\* body of a response with a retryable status, and returns.
C37_Witness ==
    /\ BodyReadFailed
    /\ method = "GET"
    /\ attempt = 1
    /\ attempt < retries
    /\ lastOutcome.status = 503
    /\ rqpc = "done"
    /\ ret.err = lastOutcome.readErr

(***************************************************************************)
(* C38: the blocking Gemini call on a stream that fails (SpecGemini).      *)
(***************************************************************************)
\* startStream succeeded and the framer ended with stream.Err set.
GeminiStreamEndedFailed == gpc = "done" /\ ssErr = NoErr /\ streamErr # NoErr

\* C38: when the framer ended with stream.Err set, CreateModelContent
\* returns that error and a nil body, whatever events were received before
\* the failure and whatever lines were read since the last blank line.
C38_ReadErrorBeatsLastChunk ==
    GeminiStreamEndedFailed =>
        /\ gret = [body |-> NilRaw, err |-> streamErr]
        /\ gret.err \notin {NoErr, ErrEmptyResponse}

\* Two events with non-empty Data were received, then the read failed in
\* the middle of a third; the call returned the read error and no body.
C38_Witness ==
    /\ GeminiStreamEndedFailed
    /\ streamErr = ErrRead
    /\ Len(NonEmptyData(framed)) = 2
    /\ last # NilRaw
    /\ dataBuf # <<>>
    /\ gret = [body |-> NilRaw, err |-> ErrRead]

(***************************************************************************)
(* C39: the records of different indices are independent (SpecAcc).        *)
(***************************************************************************)
\* The tool-call deltas applied with index i, in the order applied.
OwnDeltas(i) ==
    SelectSeq(applied, LAMBDA d : d.Type \in ToolDeltaTypes /\ d.ToolCallIndex = i)

\* The first non-empty string of a sequence of strings, "" when none.
FirstNonEmpty(ss) ==
    LET ne == SelectSeq(ss, LAMBDA x : x # "")
    IN IF ne = <<>> THEN "" ELSE ne[1]

\* The record of index i computed from the deltas of index i alone: the
\* first id, name and signature its begin and done deltas carried, its
\* fragments in order or its latest non-empty ArgumentsFull.
RecordAlone(i) ==
    LET own == OwnDeltas(i)
        idn == SelectSeq(own, LAMBDA d : d.Type \in {DeltaToolCallBegin, DeltaToolCallDone})
        id == FirstNonEmpty([k \in 1 .. Len(idn) |-> idn[k].ToolCallID])
    IN [ID |-> IF id = "" THEN "tool-" \o Itoa(i) ELSE id,
        Name |-> FirstNonEmpty([k \in 1 .. Len(idn) |-> idn[k].ToolCallName]),
        Arguments |-> IF FullsOf(own) = <<>> THEN FragmentsOf(own)
                      ELSE FullsOf(own)[Len(FullsOf(own))].ArgumentsFull,
        ThoughtSignature |-> FirstNonEmpty([k \in 1 .. Len(idn) |->
                                               idn[k].ToolCallSignature])]

\* C39: whatever the interleaving of the deltas of several indices, the
\* indices tracked are those that received a tool-call delta, and the record
\* CompleteCalls returns for an index is the record its own deltas alone
\* give: no id, name, signature or argument of another index enters it.
C39_RecordDependsOnOwnDeltas ==
    apc = "done" =>
        /\ {order[k] : k \in 1 .. Len(order)}
               = {i \in 0 .. MaxIndex : OwnDeltas(i) # <<>>}
        /\ Len(completed) = Len(order)
        /\ \A k \in 1 .. Len(completed) : completed[k] = RecordAlone(order[k])

\* The deltas of index 0 surround a begin of index 1 that carries another
\* id, name and signature; each record holds its own.
C39_Witness ==
    /\ apc = "done"
    /\ Len(applied) = 3
    /\ applied[1].Type = DeltaToolCallArgumentsDelta
    /\ applied[1].ToolCallIndex = 0 /\ applied[1].ArgumentsDelta = "a"
    /\ applied[2].Type = DeltaToolCallBegin
    /\ applied[2].ToolCallIndex = 1 /\ applied[2].ToolCallID = "id2"
    /\ applied[3].Type = DeltaToolCallBegin
    /\ applied[3].ToolCallIndex = 0 /\ applied[3].ToolCallID = "id1"
    /\ completed = <<[ID |-> "id1", Name |-> "f", Arguments |-> "a",
                      ThoughtSignature |-> "s"],
                     [ID |-> "id2", Name |-> "g", Arguments |-> "",
                      ThoughtSignature |-> "s2"]>>

====
